---- MODULE Spec2Model ----
(***************************************************************************)
(* Controller-based downloader of webdav_fs                                *)
(* (remote_downloader_controller.rs, remote_downloader.rs) together with   *)
(* the reactive primitives it is built on (queue_reactive.rs,              *)
(* unlock_reactive.rs).                                                    *)
(*                                                                         *)
(* One downloader is modelled: the caller's send(), the coordinator that   *)
(* send() runs (single_thread_download or chunked_download), the segment   *)
(* tasks spawned by chunked_download, the controller calls pause(),        *)
(* resume(), cancel(), and one subscriber of downloaded_bytes.             *)
(*                                                                         *)
(* The server holds a file of `total` bytes; the byte at offset o is o+1   *)
(* (all bytes distinct and non-zero; a pre-allocated file holds zeros).    *)
(***************************************************************************)
EXTENDS Integers, Sequences, FiniteSets, TLC

\* ---------------------------------------------------------------- bounds
MaxTotal == 3        \* largest remote file size (bytes)
MaxChunkSize == 2    \* largest config.chunk_size tried
MaxChunks == 2       \* largest config.max_chunks tried
SubChunkLen == 1     \* bytes delivered by one stream.next()
MaxRetries == 1      \* config.max_retries
MaxCalls == 2        \* controller calls (pause/resume/cancel) per behaviour
MaxFails == 1        \* transport failures injected per behaviour
MaxSends == 2        \* send() calls per behaviour
NumProducers == 2    \* clones of the QueueReactiveProperty sending concurrently
MaxMsgs == 2         \* values each producer sends
NumWaiters == 2      \* tasks calling LockReactiveProperty::wait_until
NumUpdaters == 2     \* tasks calling UnlockReactiveProperty::update_field concurrently
MaxIncrements == 2   \* update_field calls per task
MaxOps == 1          \* calls each task calling update / get_current / destroy makes
MaxRuns == 2         \* transfers started on one save path
MaxSegments == 3     \* most segments of a ByteSegments value
MaxFanTotal == 8     \* largest file size of the fan-out loops taken alone
MaxFanChunk == 3     \* largest config.chunk_size of the fan-out loops taken alone
MaxPathLen == 2      \* most segments of a path argument

VARIABLES
    total,            \* file_data.size
    chunk_size,       \* config.chunk_size
    max_chunks,       \* config.max_chunks
    download_mode,    \* config.download_mode
    max_retries,      \* config.max_retries
    range_support,    \* the server answers a Range request with that range (206)
    command_queue,    \* mpsc channel of QueueReactiveProperty
    queue_state,      \* QueueReactiveProperty.state (last value, observable)
    download_status,  \* reactive_state.download_status
    downloaded_bytes, \* reactive_state.downloaded_bytes
    waiting,          \* tasks holding a registered Notified future
    woken,            \* tasks whose Notified future has been completed
    cpc,              \* position of the send() caller / coordinator
    idx,              \* index of the handle the coordinator awaits
    errors,           \* chunk indexes collected in `errors`
    result,           \* what send() returned
    cancelled,        \* Arc<AtomicBool> cancelled
    paused,           \* Arc<AtomicBool> paused
    bytes_counter,    \* Arc<AtomicU64> bytes_done
    permits,          \* free permits of the semaphore
    segments,         \* Arc<Mutex<Vec<(u64, Vec<u8>)>>>
    file_exists,      \* a file exists at the save path
    file_bytes,       \* content of the file the open handle refers to
    file_cursor,      \* position of the shared handle
    file_lock,        \* holder of the TokioMutex<File> (0 = free)
    tasks,            \* the spawned segment tasks
    st_bytes_done,    \* single-thread: local bytes_done
    out_bytes,        \* single-thread: local out_bytes
    w_dirty,          \* subscriber: the watch channel has an unseen value
    w_seen,           \* subscriber: value handed to the callback last
    calls,            \* history: controller calls made so far
    fails,            \* history: transport failures injected so far
    sends_left,       \* send() calls the caller will still make
    cancel_while_paused, \* history: cancel() was called on a paused, idle queue
    resumed_by,       \* history: the select! arm that delivered the last Resume
    \* -- QueueReactiveProperty driven by concurrent producers (queue_reactive.rs)
    q_chan,           \* the mpsc channel
    q_state,          \* QueueReactiveProperty.state: <<>> is None, <<v>> is Some(v)
    q_prod,           \* producers: position inside send() and values sent
    q_cons,           \* the consumer: position inside recv()/try_recv(), calls used
    q_recvd,          \* history: what recv()/try_recv() handed to the consumer
    q_last,           \* history: the value enqueued last, <<>> before the first
    \* -- LockReactiveProperty (lock_reactive.rs)
    l_value,          \* Inner.value: <<>> is None, <<v>> is Some(v)
    l_mutex,          \* holder of Inner.value's mutex, Free when unlocked
    l_waiting,        \* waiters holding a Notified future not yet completed
    l_woken,          \* waiters whose Notified future has been completed
    l_wait,           \* tasks calling wait_until
    l_call,           \* tasks calling update / get_current / destroy
    \* -- RemoteFileDownloader, chunked path (remote_file_downloader/chunked_download)
    h_file_exists,    \* a file exists at config.save_path
    h_file,           \* its content
    h_cursor,         \* position shared by the handles cloned with try_clone
    h_progress,       \* progress_state: last DownloadProgress.bytes_done published
    h_bytes_done,     \* Arc<AtomicU64> bytes_done
    h_permits,        \* free permits of the semaphore
    h_tasks,          \* the spawned range tasks
    h_pc,             \* position of the task running send()
    h_outcome,        \* ChunkedResumeOutcome of the current run
    h_result,         \* what send() returned
    h_requests,       \* history: range requests issued by the current run
    h_runs,           \* history: how each transfer started on the save path ended
    \* -- UnlockReactiveProperty and its watchers (unlock_reactive.rs)
    u_value,          \* watch channel's value: <<>> is None, <<k>> is Some(k-th published value)
    u_version,        \* watch channel's version
    u_handles,        \* UnlockReactiveProperty handles alive
    u_dropped,        \* Inner.is_dropped
    u_watch,          \* the watchers: position inside changed(), version seen, values obtained
    u_field,          \* the tasks calling update_field: position, value loaded, calls completed
    \* -- RemoteFileDownloader::send with its hooks (single_download.rs, chunked.rs)
    s_cfg,            \* file_data.is_dir / size, config.save_path / is_output_bytes, the hooks
    s_pc,             \* position of the task running send()
    s_hook,           \* rank in the current hook pass of the hook to run or running
    s_inside,         \* a hook's before_start / after_complete is running
    s_log,            \* history: begin and end of every hook call
    s_cancel,         \* DownloadHooksContainer.cancel_requested
    s_out_bytes,      \* single-thread: local out_bytes
    s_got,            \* single-thread: bytes the stream has delivered
    s_result,         \* what send() returned
    \* -- byte_segments.rs: a ByteSegments value and the last read_at on it
    b_segments,       \* the ByteSegments value [segments, total_len]
    b_read,           \* the last read_at call: [called, offset, len, out]
    \* -- entrance/remote.rs: format_url_path
    f_base_url,       \* webdav_auth.base_url
    f_path,           \* the path argument of the last call
    f_result          \* what the last call returned

vars == <<total, chunk_size, max_chunks, download_mode, max_retries,
          range_support, command_queue,
          queue_state, download_status, downloaded_bytes, waiting, woken,
          cpc, idx, errors, result, cancelled, paused, bytes_counter,
          permits, segments, file_exists, file_bytes, file_cursor,
          file_lock, tasks, st_bytes_done, out_bytes, w_dirty, w_seen,
          calls, fails, sends_left, cancel_while_paused, resumed_by,
          q_chan, q_state, q_prod, q_cons, q_recvd, q_last,
          l_value, l_mutex, l_waiting, l_woken, l_wait, l_call,
          h_file_exists, h_file, h_cursor, h_progress, h_bytes_done, h_permits,
          h_tasks, h_pc, h_outcome, h_result, h_requests, h_runs,
          u_value, u_version, u_handles, u_dropped, u_watch, u_field,
          s_cfg, s_pc, s_hook, s_inside, s_log, s_cancel, s_out_bytes, s_got, s_result,
          b_segments, b_read,
          f_base_url, f_path, f_result>>

cfgVars == <<total, chunk_size, max_chunks, download_mode, max_retries, range_support>>
ctlVars == <<command_queue, queue_state, calls, cancel_while_paused, resumed_by>>
fileVars == <<file_exists, file_bytes, file_cursor, file_lock>>
singleVars == <<st_bytes_done, out_bytes>>
watchVars == <<w_dirty, w_seen>>
queueVars == <<q_chan, q_state, q_prod, q_cons, q_recvd, q_last>>
lockVars == <<l_value, l_mutex, l_waiting, l_woken, l_wait, l_call>>
hookVars == <<h_file_exists, h_file, h_cursor, h_progress, h_bytes_done,
              h_permits, h_tasks, h_pc, h_outcome, h_result, h_requests, h_runs>>
unlockVars == <<u_value, u_version, u_handles, u_dropped, u_watch, u_field>>
sendVars == <<s_cfg, s_pc, s_hook, s_inside, s_log, s_cancel, s_out_bytes, s_got, s_result>>
segVars == <<b_segments, b_read>>
urlVars == <<f_base_url, f_path, f_result>>
\* The state of the components a step of the controller-based downloader
\* does not touch.
extVars == <<queueVars, lockVars, hookVars, unlockVars, sendVars, segVars, urlVars>>
\* The state of the controller-based downloader but for its configuration.
dlVars == <<ctlVars, download_status, downloaded_bytes, waiting, woken, cpc, idx,
            errors, result, cancelled, paused, bytes_counter, permits, segments,
            fileVars, tasks, singleVars, watchVars, fails, sends_left>>

\* ---------------------------------------------------------------- helpers
Min(a, b) == IF a < b THEN a ELSE b
Max(a, b) == IF a > b THEN a ELSE b

\* The server's byte at offset o.
ServerByte(o) == o + 1

\* Body of a plain GET: the whole file.
ServeFull(n) == [i \in 1..n |-> ServerByte(i - 1)]

\* format!("bytes={}-{}", range_start, range_end - 1)
RangeHeaderOffByOne(range_start, range_end) == <<range_start, range_end>>
RangeHeader(range_start, range_end) == <<range_start, range_end - 1>>

\* Body of a 206 answer to "bytes=first-last" (last inclusive, clipped).
ServeRange(h, n) ==
    LET last == Min(h[2], n - 1)
    IN  [i \in 1..(last - h[1] + 1) |-> ServerByte(h[1] + i - 1)]

\* The sub-chunk stream.next() yields after `got` bytes of `body`.
NextSubChunk(body, got) ==
    SubSeq(body, got + 1, Min(got + SubChunkLen, Len(body)))

\* file_guard.write_all(&chunk) at the handle's cursor.
RECURSIVE WriteAt(_, _, _)
WriteAt(bytes, pos, chunk) ==
    IF chunk = <<>> THEN bytes
    ELSE LET grown == IF pos + 1 > Len(bytes)
                      THEN bytes \o [i \in 1..(pos + 1 - Len(bytes)) |-> 0]
                      ELSE bytes
         IN  WriteAt([grown EXCEPT ![pos + 1] = Head(chunk)], pos + 1, Tail(chunk))

\* raw_segments.sort_by_key(|(offset, _)| *offset): stable insertion sort.
RECURSIVE InsertByOffset(_, _)
InsertByOffset(sorted, seg) ==
    IF sorted = <<>> THEN <<seg>>
    ELSE IF seg.offset < Head(sorted).offset THEN <<seg>> \o sorted
    ELSE <<Head(sorted)>> \o InsertByOffset(Tail(sorted), seg)

RECURSIVE SortByOffsetRec(_, _)
SortByOffsetRec(raw, acc) ==
    IF raw = <<>> THEN acc
    ELSE SortByOffsetRec(Tail(raw), InsertByOffset(acc, Head(raw)))

SortByOffsetMissing(raw) == raw
SortByOffset(raw) == SortByOffsetRec(raw, <<>>)

\* ByteSegments::new
ByteSegmentsNew(segs) ==
    [segments |-> segs,
     total_len |-> IF segs = <<>> THEN 0
                   ELSE segs[Len(segs)].offset + Len(segs[Len(segs)].data)]

\* The fan-out loop of chunked_download: one task per [range_start, range_end).
NewTask(range_start, range_end) ==
    [pc |-> "acquire", site |-> "outer", lo |-> range_start, hi |-> range_end,
     file_offset |-> range_start, chunk_data |-> <<>>, got |-> 0,
     retries |-> 0, current |-> 0, attempts |-> 0, late |-> 0]

RECURSIVE SpawnTasksUnclipped(_, _, _)
SpawnTasksUnclipped(range_start, tot, cs) ==
    IF range_start < tot
    THEN <<NewTask(range_start, range_start + cs)>>
             \o SpawnTasksUnclipped(range_start + cs, tot, cs)
    ELSE <<>>

RECURSIVE SpawnTasks(_, _, _)
SpawnTasks(range_start, tot, cs) ==
    IF range_start < tot
    THEN LET range_end == Min(range_start + cs, tot)
         IN  <<NewTask(range_start, range_end)>> \o SpawnTasks(range_end, tot, cs)
    ELSE <<>>

Tasks == DOMAIN tasks
Terminal == {"done", "cancelled", "failed"}
NoResult == [tag |-> "None"]
Returned == cpc = "returned"

\* tokio::sync::Semaphore::new(max_concurrent)
MaxConcurrentOffByOne(mc) == Max(mc, 2) + 1
MaxConcurrent(mc) == Max(mc, 2)

\* drop(_permit) at the end of download_chunk
ReleasePermitLeak(p) == p
ReleasePermit(p) == p + 1

\* file_offset += len
AdvanceOffsetStuck(off, len) == off
AdvanceOffset(off, len) == off + len

\* Notify::notify_waiters
NotifyWaiters ==
    /\ woken' = woken \cup waiting
    /\ waiting' = {}

\* UnlockReactiveProperty::update on downloaded_bytes
Publish(v) ==
    /\ downloaded_bytes' = v
    /\ w_dirty' = TRUE

\* ---------------------------------------------------------------- construction
Free == <<"free", 0>>
Waiter(i) == <<"waiter", i>>
Caller(i) == <<"caller", i>>
Waiters == {Waiter(i) : i \in 1..NumWaiters}
\* Two tasks call update, get_current and destroy.
Callers == {Caller(1), Caller(2)}
\* The values of the property: one satisfies the waiters' predicate, one does not.
Values == {0, 1}
Producers == 1..NumProducers

\* QueueReactiveProperty::new; no producer is inside send().
QueueNew ==
    /\ q_chan = <<>>
    /\ q_state = <<>>
    /\ q_prod = [p \in Producers |-> [pc |-> "idle", sent |-> 0]]
    /\ q_cons = [pc |-> "idle", value |-> <<>>, used |-> {}]
    /\ q_recvd = <<>>
    /\ q_last = <<>>

\* LockReactiveProperty::new(value)
LockNew(value) ==
    /\ l_value = <<value>>
    /\ l_mutex = Free
    /\ l_waiting = {}
    /\ l_woken = {}
    /\ l_wait = [w \in Waiters |-> [pc |-> "idle", ret |-> "none"]]
    /\ l_call = [c \in Callers |-> [pc |-> "idle", op |-> "none", arg |-> 0,
                                    ret |-> "none", ops |-> 0]]

\* build_downloader(..).save_to(path).max_concurrent_chunks(n); no file at
\* the save path, send() not called.
HookNew ==
    /\ h_file_exists = FALSE
    /\ h_file = <<>>
    /\ h_cursor = 0
    /\ h_progress = 0
    /\ h_bytes_done = 0
    /\ h_permits = 0
    /\ h_tasks = <<>>
    /\ h_pc = "idle"
    /\ h_outcome = [tag |-> "None"]
    /\ h_result = NoResult
    /\ h_requests = 0
    /\ h_runs = <<>>

\* ---------------------------------------------------------------- Init
\* RemoteDownloader::new followed by the builder calls (save_to, output_bytes,
\* max_chunks, chunk_size); send() has not been called.
Constructed ==
    /\ command_queue = <<>>
    /\ queue_state = "None"
    /\ download_status = "Running"
    /\ downloaded_bytes = 0
    /\ waiting = {}
    /\ woken = {}
    /\ cpc = "idle"
    /\ idx = 1
    /\ errors = {}
    /\ result = NoResult
    /\ cancelled = FALSE
    /\ paused = FALSE
    /\ bytes_counter = 0
    /\ permits = 0
    /\ segments = <<>>
    /\ file_exists = FALSE
    /\ file_bytes = <<>>
    /\ file_cursor = 0
    /\ file_lock = 0
    /\ tasks = <<>>
    /\ st_bytes_done = 0
    /\ out_bytes = <<>>
    /\ w_dirty = FALSE
    /\ w_seen = 0
    /\ calls = <<>>
    /\ fails = 0
    /\ cancel_while_paused = FALSE
    /\ resumed_by = "none"

Configs ==
    /\ total \in 0..MaxTotal
    /\ chunk_size \in 1..MaxChunkSize
    /\ max_chunks \in 1..MaxChunks
    /\ download_mode \in {"SaveFile", "OutputBytes"}
    /\ max_retries = MaxRetries
    /\ range_support = TRUE

\* The other components are idle in the specifications of the downloader.
Watchers == {1, 2}

\* The tasks that call update_field on clones of one property.
Updaters == 1..NumUpdaters

\* UnlockReactiveProperty::new(value): the initial value is value 0.
UnlockNew ==
    /\ u_value = <<0>>
    /\ u_version = 0
    /\ u_handles = 1
    /\ u_dropped = FALSE
    /\ u_watch = [w \in Watchers |-> [pc |-> "none", seen |-> 0, got |-> <<>>,
                                      ret |-> "none"]]
    /\ u_field = [t \in Updaters |-> [pc |-> "idle", current |-> 0, applied |-> 0]]

\* build_downloader and the builder calls: what a downloader can be built
\* with. A hook is "ok" or "abort" after its before_start result; old_file
\* says that a file (one stale block) exists at the save path beforehand.
HookLists == {<<>>, <<"ok">>, <<"abort">>, <<"ok", "ok">>, <<"ok", "abort">>,
              <<"abort", "ok">>}
SendConfigs ==
    [is_dir : BOOLEAN, size_known : BOOLEAN, save : BOOLEAN, bytes : BOOLEAN,
     hooks : HookLists, old_file : BOOLEAN]

SendNew ==
    /\ s_cfg = [is_dir |-> FALSE, size_known |-> TRUE, save |-> TRUE,
                bytes |-> FALSE, hooks |-> <<>>, old_file |-> FALSE]
    /\ s_pc = "built"
    /\ s_hook = 0
    /\ s_inside = FALSE
    /\ s_log = <<>>
    /\ s_cancel = FALSE
    /\ s_out_bytes = <<>>
    /\ s_got = 0
    /\ s_result = NoResult

\* No ByteSegments value is under inspection: an empty one, never read.
NoRead == [called |-> FALSE, offset |-> 0, len |-> 0, out |-> <<>>]
SegmentsNew ==
    /\ b_segments = ByteSegmentsNew(<<>>)
    /\ b_read = NoRead

\* The auth handle of the path join, before any format_url_path call.
NoCall == [tag |-> "None"]
DefaultBase == [scheme |-> "http", host |-> "host", port |-> "", path |-> <<<<>>>>]
UrlNew ==
    /\ f_base_url = DefaultBase
    /\ f_path = NoCall
    /\ f_result = NoCall

Idle ==
    /\ QueueNew
    /\ LockNew(0)
    /\ HookNew
    /\ UnlockNew
    /\ SendNew
    /\ SegmentsNew
    /\ UrlNew

Init ==
    /\ Configs
    /\ Constructed
    /\ Idle
    /\ sends_left = MaxSends

\* A chunked download whose caller calls send() once.
InitChunked ==
    /\ Configs
    /\ max_chunks > 1
    /\ Constructed
    /\ Idle
    /\ sends_left = 1


\* ---------------------------------------------------------------- controller calls
\* QueueReactiveProperty::send: publish the value, then enqueue it.
QueueSend(cmd) ==
    /\ queue_state' = cmd
    /\ command_queue' = Append(command_queue, cmd)
    /\ calls' = Append(calls, cmd)

\* QueueReactiveConsumer::recv / try_recv with a non-empty channel.
QueueRecv ==
    /\ queue_state' = Head(command_queue)
    /\ command_queue' = Tail(command_queue)

\* RemoteDownloaderController::pause
PauseSetsStatus ==
    /\ Len(calls) < MaxCalls
    /\ QueueSend("Pause")
    /\ download_status' = "Paused"
    /\ UNCHANGED <<cfgVars, extVars, downloaded_bytes, waiting, woken,
                   cpc, idx, errors, result, cancelled, paused, bytes_counter,
                   permits, segments, fileVars, tasks, singleVars, watchVars,
                   fails, sends_left, cancel_while_paused, resumed_by>>

Pause ==
    /\ Len(calls) < MaxCalls
    /\ QueueSend("Pause")
    /\ UNCHANGED <<cfgVars, extVars, download_status, downloaded_bytes, waiting, woken,
                   cpc, idx, errors, result, cancelled, paused, bytes_counter,
                   permits, segments, fileVars, tasks, singleVars, watchVars,
                   fails, sends_left, cancel_while_paused, resumed_by>>

\* RemoteDownloaderController::resume
Resume ==
    /\ Len(calls) < MaxCalls
    /\ QueueSend("Resume")
    /\ NotifyWaiters
    /\ UNCHANGED <<cfgVars, extVars, download_status, downloaded_bytes,
                   cpc, idx, errors, result, cancelled, paused, bytes_counter,
                   permits, segments, fileVars, tasks, singleVars, watchVars,
                   fails, sends_left, cancel_while_paused, resumed_by>>

\* RemoteDownloaderController::cancel
Cancel ==
    /\ Len(calls) < MaxCalls
    /\ QueueSend("Cancel")
    /\ NotifyWaiters
    /\ cancel_while_paused' =
          (cancel_while_paused
             \/ (cpc = "wait" /\ download_status = "Paused" /\ command_queue = <<>>))
    /\ UNCHANGED <<cfgVars, extVars, download_status, downloaded_bytes,
                   cpc, idx, errors, result, cancelled, paused, bytes_counter,
                   permits, segments, fileVars, tasks, singleVars, watchVars,
                   fails, sends_left, resumed_by>>

\* ---------------------------------------------------------------- chunked_download
\* Every task of the previous send() has returned or is suspended on the
\* notifier: the caller of a further send() has let the earlier run settle.
Settled == \A t \in Tasks : tasks[t].pc \in Terminal \cup {"wait"}

\* send() -> download() -> chunked_download up to the end of the fan-out loop.
ChunkedStart ==
    /\ cpc \in {"idle", "returned"}
    /\ sends_left > 0
    /\ max_chunks > 1
    /\ Settled
    /\ sends_left' = sends_left - 1
    /\ Publish(0)
    /\ download_status' = "Running"
    /\ IF download_mode = "SaveFile"
       THEN /\ file_exists' = TRUE
            /\ file_bytes' = [i \in 1..total |-> 0]
       ELSE UNCHANGED <<file_exists, file_bytes>>
    /\ file_cursor' = 0
    /\ file_lock' = 0
    /\ segments' = <<>>
    /\ permits' = MaxConcurrent(max_chunks)
    /\ bytes_counter' = 0
    /\ cancelled' = FALSE
    /\ paused' = FALSE
    /\ tasks' = SpawnTasks(0, total, chunk_size)
    /\ waiting' = {}
    /\ woken' = {}
    /\ errors' = {}
    /\ idx' = 1
    /\ result' = NoResult
    /\ cpc' = "join"
    /\ UNCHANGED <<cfgVars, extVars, ctlVars, singleVars, w_seen, fails>>

\* The fan-out loop of chunked_download by itself: the tasks it spawns.
FanOut ==
    /\ cpc = "idle"
    /\ cpc' = "spawned"
    /\ tasks' = SpawnTasks(0, total, chunk_size)
    /\ UNCHANGED <<cfgVars, extVars, ctlVars, download_status, downloaded_bytes,
                   waiting, woken, idx, errors, result, cancelled, paused,
                   bytes_counter, permits, segments, fileVars, singleVars,
                   watchVars, fails, sends_left>>

\* The Cancel arms of chunked_download and wait_for_resume_or_cancel.
CoordCancel ==
    /\ cancelled' = TRUE
    /\ download_status' = "Canceled"
    /\ file_exists' = IF download_mode = "SaveFile" THEN FALSE ELSE file_exists
    /\ result' = [tag |-> "Cancelled"]
    /\ cpc' = "returned"

\* select! arm `cmd = consumer.recv()` of the join loop (polled first).
CoordRecv ==
    /\ cpc = "join"
    /\ idx <= Len(tasks)
    /\ command_queue # <<>>
    /\ QueueRecv
    /\ LET cmd == Head(command_queue) IN
       CASE cmd = "Pause" ->
              /\ paused' = TRUE
              /\ download_status' = "Paused"
              /\ cpc' = "wait"
              /\ tasks' = [t \in DOMAIN tasks |-> [tasks[t] EXCEPT !.late = 0]]
              /\ UNCHANGED <<cancelled, file_exists, result>>
         [] cmd = "Cancel" ->
              /\ CoordCancel
              /\ UNCHANGED <<paused, tasks>>
         [] cmd = "Resume" ->
              UNCHANGED <<paused, download_status, cpc, cancelled, file_exists, result,
                          tasks>>
    /\ UNCHANGED <<cfgVars, extVars, downloaded_bytes, waiting, woken, idx, errors,
                   bytes_counter, permits, segments, file_bytes, file_cursor,
                   file_lock, singleVars, watchVars, calls, fails, sends_left,
                   cancel_while_paused, resumed_by>>

\* wait_for_resume_or_cancel: either select! arm hands over the next command.
CoordWaitRecv ==
    /\ cpc = "wait"
    /\ command_queue # <<>>
    /\ QueueRecv
    /\ LET cmd == Head(command_queue) IN
       CASE cmd = "Resume" ->
              /\ download_status' = "Running"
              /\ paused' = FALSE
              /\ cpc' = "join"
              /\ UNCHANGED <<cancelled, file_exists, result>>
         [] cmd = "Cancel" ->
              /\ CoordCancel
              /\ UNCHANGED paused
         [] cmd = "Pause" ->
              UNCHANGED <<paused, download_status, cpc, cancelled, file_exists, result>>
    /\ UNCHANGED <<cfgVars, extVars, downloaded_bytes, waiting, woken, idx, errors,
                   bytes_counter, permits, segments, file_bytes, file_cursor,
                   file_lock, tasks, singleVars, watchVars, calls, fails, sends_left,
                   cancel_while_paused, resumed_by>>

\* select! arm `result = &mut handle` of the join loop.
CoordJoin ==
    /\ cpc = "join"
    /\ idx <= Len(tasks)
    /\ command_queue = <<>>
    /\ tasks[idx].pc \in Terminal
    /\ errors' = IF tasks[idx].pc = "failed" THEN errors \cup {idx} ELSE errors
    /\ idx' = idx + 1
    /\ UNCHANGED <<cfgVars, extVars, ctlVars, download_status, downloaded_bytes, waiting,
                   woken, cpc, result, cancelled, paused, bytes_counter, permits,
                   segments, fileVars, tasks, singleVars, watchVars, fails, sends_left>>

\* chunked_download after the join loop: error report or finalisation.
CoordFinish ==
    /\ cpc = "join"
    /\ idx > Len(tasks)
    /\ IF errors # {}
       THEN /\ file_exists' = IF download_mode = "SaveFile" THEN FALSE ELSE file_exists
            /\ result' = [tag |-> "MultipleChunksFailed", chunks |-> errors]
            /\ UNCHANGED <<download_status, segments>>
       ELSE /\ download_status' = "Finished"
            /\ IF download_mode = "OutputBytes"
               THEN /\ result' = [tag |-> "Ok", kind |-> "ByteSegments",
                                  value |-> ByteSegmentsNew(SortByOffset(segments))]
                    /\ segments' = <<>>
               ELSE /\ result' = [tag |-> "Ok", kind |-> "SavedToLocal"]
                    /\ UNCHANGED segments
            /\ UNCHANGED file_exists
    /\ cpc' = "returned"
    /\ UNCHANGED <<cfgVars, extVars, ctlVars, downloaded_bytes, waiting, woken, idx, errors,
                   cancelled, paused, bytes_counter, permits, file_bytes,
                   file_cursor, file_lock, tasks, singleVars, watchVars, fails, sends_left>>


\* ---------------------------------------------------------------- download_chunk
TaskFrame == <<cfgVars, extVars, ctlVars, download_status, cpc, idx, errors, result,
               cancelled, paused, singleVars, w_seen, sends_left>>

\* The range response of task t and the sub-chunk it is about to process.
Body(t) ==
    IF range_support
    THEN ServeRange(RangeHeader(tasks[t].lo, tasks[t].hi), total)
    ELSE ServeFull(total)
SubChunk(t) == NextSubChunk(Body(t), tasks[t].got)

\* History: the sub-chunks a task has written since the status became Paused.
WrittenLate(late) == IF download_status = "Paused" THEN late + 1 ELSE late

\* `return` from download_chunk: the task ends and drops its permit.
TaskReturn(t, how) ==
    /\ tasks' = [tasks EXCEPT ![t].pc = how]
    /\ permits' = ReleasePermit(permits)

\* semaphore.acquire().await
TaskAcquire(t) ==
    /\ tasks[t].pc = "acquire"
    /\ permits > 0
    /\ permits' = permits - 1
    /\ tasks' = [tasks EXCEPT ![t].pc = "chk_cancel", ![t].site = "outer"]
    /\ UNCHANGED <<TaskFrame, downloaded_bytes, waiting, woken, bytes_counter,
                   segments, fileVars, w_dirty, fails>>

\* if cancelled.load() { return Err(Cancelled) }   (loop head and per sub-chunk)
TaskCheckCancel(t) ==
    /\ tasks[t].pc = "chk_cancel"
    /\ IF cancelled
       THEN TaskReturn(t, "cancelled")
       ELSE /\ tasks' = [tasks EXCEPT ![t].pc = "chk_paused"]
            /\ UNCHANGED permits
    /\ UNCHANGED <<TaskFrame, downloaded_bytes, waiting, woken, bytes_counter,
                   segments, fileVars, w_dirty, fails>>

\* paused.load(Ordering::SeqCst), the condition of the while loops
WhilePausedIgnored(flag) == FALSE
WhilePaused(flag) == flag

\* while paused.load() { ... }
TaskCheckPaused(t) ==
    /\ tasks[t].pc = "chk_paused"
    /\ tasks' = [tasks EXCEPT ![t].pc =
                    IF WhilePaused(paused) THEN "chk_pcancel"
                    ELSE IF tasks[t].site = "outer" THEN "request" ELSE "chunk",
                    ![t].attempts =
                    IF ~WhilePaused(paused) /\ tasks[t].site = "outer"
                    THEN tasks[t].attempts + 1 ELSE tasks[t].attempts]
    /\ UNCHANGED <<TaskFrame, downloaded_bytes, waiting, woken, bytes_counter,
                   permits, segments, fileVars, w_dirty, fails>>

\* ... if cancelled.load() { return Err(Cancelled) } ...
TaskCheckPausedCancel(t) ==
    /\ tasks[t].pc = "chk_pcancel"
    /\ IF cancelled
       THEN TaskReturn(t, "cancelled")
       ELSE /\ tasks' = [tasks EXCEPT ![t].pc = "register"]
            /\ UNCHANGED permits
    /\ UNCHANGED <<TaskFrame, downloaded_bytes, waiting, woken, bytes_counter,
                   segments, fileVars, w_dirty, fails>>

\* ... resume_notifier.notified() : the future is created and is from now on
\* completed by notify_waiters.
TaskRegister(t) ==
    /\ tasks[t].pc = "register"
    /\ waiting' = waiting \cup {t}
    /\ tasks' = [tasks EXCEPT ![t].pc = "wait"]
    /\ UNCHANGED <<TaskFrame, downloaded_bytes, woken, bytes_counter, permits,
                   segments, fileVars, w_dirty, fails>>

\* ... .await returns after a notify_waiters; back to the while condition.
TaskWake(t) ==
    /\ tasks[t].pc = "wait"
    /\ t \in woken
    /\ woken' = woken \ {t}
    /\ tasks' = [tasks EXCEPT ![t].pc = "chk_paused"]
    /\ UNCHANGED <<TaskFrame, downloaded_bytes, waiting, bytes_counter, permits,
                   segments, fileVars, w_dirty, fails>>

\* download_chunk_inner: client.get(url).header(RANGE, ..).send() answered.
TaskRequest(t) ==
    /\ tasks[t].pc = "request"
    /\ tasks' = [tasks EXCEPT ![t].pc = "next", ![t].got = 0,
                              ![t].file_offset = tasks[t].lo,
                              ![t].chunk_data = <<>>]
    /\ UNCHANGED <<TaskFrame, downloaded_bytes, waiting, woken, bytes_counter,
                   permits, segments, fileVars, w_dirty, fails>>

\* stream.next().await: a sub-chunk, or the end of the stream followed by
\* segments.lock().await.push((offset, chunk_data)) and Ok(()).
TaskNext(t) ==
    /\ tasks[t].pc = "next"
    /\ IF tasks[t].got < Len(Body(t))
       THEN /\ tasks' = [tasks EXCEPT ![t].pc = "chk_cancel", ![t].site = "inner"]
            /\ UNCHANGED <<permits, segments>>
       ELSE /\ TaskReturn(t, "done")
            /\ segments' = IF download_mode = "OutputBytes"
                           THEN Append(segments, [offset |-> tasks[t].lo,
                                                  data |-> tasks[t].chunk_data])
                           ELSE segments
    /\ UNCHANGED <<TaskFrame, downloaded_bytes, waiting, woken, bytes_counter,
                   fileVars, w_dirty, fails>>

\* let chunk = chunk_result?; then f.lock().await (save-to-file) or
\* chunk_data.extend_from_slice(&chunk) (output-bytes).
TaskChunk(t) ==
    /\ tasks[t].pc = "chunk"
    /\ IF download_mode = "SaveFile"
       THEN /\ file_lock = 0
            /\ file_lock' = t
            /\ tasks' = [tasks EXCEPT ![t].pc = "seek"]
       ELSE /\ tasks' = [tasks EXCEPT ![t].pc = "add",
                            ![t].chunk_data = tasks[t].chunk_data \o SubChunk(t),
                            ![t].late = WrittenLate(tasks[t].late)]
            /\ UNCHANGED file_lock
    /\ UNCHANGED <<TaskFrame, downloaded_bytes, waiting, woken, bytes_counter,
                   permits, segments, file_exists, file_bytes, file_cursor,
                   w_dirty, fails>>

\* file_guard.seek(SeekFrom::Start(file_offset))
TaskSeek(t) ==
    /\ tasks[t].pc = "seek"
    /\ file_cursor' = tasks[t].file_offset
    /\ tasks' = [tasks EXCEPT ![t].pc = "write"]
    /\ UNCHANGED <<TaskFrame, downloaded_bytes, waiting, woken, bytes_counter,
                   permits, segments, file_exists, file_bytes, file_lock,
                   w_dirty, fails>>

\* file_guard.write_all(&chunk); drop(file_guard)
TaskWrite(t) ==
    /\ tasks[t].pc = "write"
    /\ file_bytes' = WriteAt(file_bytes, file_cursor, SubChunk(t))
    /\ file_cursor' = file_cursor + Len(SubChunk(t))
    /\ file_lock' = 0
    /\ tasks' = [tasks EXCEPT ![t].pc = "add", ![t].late = WrittenLate(tasks[t].late)]
    /\ UNCHANGED <<TaskFrame, downloaded_bytes, waiting, woken, bytes_counter,
                   permits, segments, file_exists, w_dirty, fails>>

\* let current = bytes_counter.fetch_add(len, Relaxed) + len
TaskAdd(t) ==
    /\ tasks[t].pc = "add"
    /\ bytes_counter' = bytes_counter + Len(SubChunk(t))
    /\ tasks' = [tasks EXCEPT ![t].pc = "publish",
                              ![t].current = bytes_counter + Len(SubChunk(t))]
    /\ UNCHANGED <<TaskFrame, downloaded_bytes, waiting, woken, permits,
                   segments, fileVars, w_dirty, fails>>

\* progress_state.update(current); file_offset += len
TaskPublish(t) ==
    /\ tasks[t].pc = "publish"
    /\ Publish(tasks[t].current)
    /\ tasks' = [tasks EXCEPT ![t].pc = "next",
                    ![t].file_offset = AdvanceOffset(tasks[t].file_offset, Len(SubChunk(t))),
                    ![t].got = tasks[t].got + Len(SubChunk(t))]
    /\ UNCHANGED <<TaskFrame, waiting, woken, bytes_counter, permits, segments,
                   fileVars, fails>>

\* `if retries > max_retries` of download_chunk
RetriesExhaustedLate(retries, max) == retries > max + 1
RetriesExhausted(retries, max) == retries > max

\* The request or a streamed sub-chunk fails: the Err arm of download_chunk
\* (retries += 1; ChunkFailed after max_retries, else sleep and loop).
TaskFail(t) ==
    /\ tasks[t].pc \in {"request", "chunk"}
    /\ fails < MaxFails
    /\ fails' = fails + 1
    /\ IF RetriesExhausted(tasks[t].retries + 1, max_retries)
       THEN /\ tasks' = [tasks EXCEPT ![t].pc = "failed",
                                      ![t].retries = tasks[t].retries + 1]
            /\ permits' = ReleasePermit(permits)
       ELSE /\ tasks' = [tasks EXCEPT ![t].pc = "chk_cancel", ![t].site = "outer",
                                      ![t].retries = tasks[t].retries + 1]
            /\ UNCHANGED permits
    /\ UNCHANGED <<TaskFrame, downloaded_bytes, waiting, woken, bytes_counter,
                   segments, fileVars, w_dirty>>

\* The steps a task takes while the download is not paused ...
TaskRun(t) ==
    \/ TaskAcquire(t)
    \/ TaskCheckCancel(t)
    \/ TaskCheckPaused(t)
    \/ TaskRequest(t)
    \/ TaskNext(t)
    \/ TaskChunk(t)
    \/ TaskSeek(t)
    \/ TaskWrite(t)
    \/ TaskAdd(t)
    \/ TaskPublish(t)

\* ... and the steps of the body of `while paused.load()`.
TaskSuspend(t) ==
    \/ TaskCheckPausedCancel(t)
    \/ TaskRegister(t)
    \/ TaskWake(t)

TaskStep(t) == TaskRun(t) \/ TaskSuspend(t)

\* ---------------------------------------------------------------- subscriber
\* subscribe_downloaded_bytes: watcher.changed().await, then callback(bytes).
WatcherChanged ==
    /\ w_dirty
    /\ w_dirty' = FALSE
    /\ w_seen' = downloaded_bytes
    /\ UNCHANGED <<cfgVars, extVars, ctlVars, download_status, downloaded_bytes, waiting,
                   woken, cpc, idx, errors, result, cancelled, paused,
                   bytes_counter, permits, segments, fileVars, tasks, singleVars,
                   fails, sends_left>>


\* ---------------------------------------------------------------- single_thread_download
\* The Notified future of the task running send() is registered under id 0
\* (the segment tasks are 1..Len(tasks)).
Coordinator == 0

SingleFrame == <<cfgVars, extVars, calls, cancel_while_paused, idx, errors,
                 cancelled, paused, bytes_counter, permits, segments, file_lock,
                 tasks, w_seen, sends_left>>

\* send() -> download() -> single_thread_download up to the stream loop.
SingleStart ==
    /\ cpc \in {"idle", "returned"}
    /\ sends_left > 0
    /\ max_chunks <= 1
    /\ sends_left' = sends_left - 1
    /\ Publish(0)
    /\ download_status' = "Running"
    /\ IF download_mode = "SaveFile"
       THEN /\ file_exists' = TRUE
            /\ file_bytes' = <<>>
       ELSE UNCHANGED <<file_exists, file_bytes>>
    /\ file_cursor' = 0
    /\ st_bytes_done' = 0
    /\ out_bytes' = <<>>
    /\ result' = NoResult
    /\ cpc' = "stream"
    /\ UNCHANGED <<cfgVars, extVars, ctlVars, waiting, woken, idx, errors, cancelled,
                   paused, bytes_counter, permits, segments, file_lock, tasks,
                   w_seen, fails>>

\* ... the GET request fails: `.send().await?` returns before File::create.
SingleStartFail ==
    /\ cpc \in {"idle", "returned"}
    /\ sends_left > 0
    /\ max_chunks <= 1
    /\ fails < MaxFails
    /\ sends_left' = sends_left - 1
    /\ fails' = fails + 1
    /\ Publish(0)
    /\ download_status' = "Running"
    /\ result' = [tag |-> "Request"]
    /\ cpc' = "returned"
    /\ UNCHANGED <<cfgVars, extVars, ctlVars, waiting, woken, idx, errors, cancelled,
                   paused, bytes_counter, permits, segments, fileVars, tasks,
                   singleVars, w_seen>>

\* select! arm `cmd = consumer.recv()` of the stream loop (polled first).
SingleRecv ==
    /\ cpc = "stream"
    /\ command_queue # <<>>
    /\ QueueRecv
    /\ LET cmd == Head(command_queue) IN
       CASE cmd = "Pause" ->
              /\ download_status' = "Paused"
              /\ cpc' = "stream_pause"
              /\ UNCHANGED result
         [] cmd = "Cancel" ->
              /\ download_status' = "Canceled"
              /\ result' = [tag |-> "Cancelled"]
              /\ cpc' = "returned"
         [] cmd = "Resume" ->
              UNCHANGED <<download_status, cpc, result>>
    /\ UNCHANGED <<SingleFrame, waiting, woken, resumed_by, downloaded_bytes,
                   fileVars, singleVars, w_dirty, fails>>

\* Head of the inner pause loop: select! creates resume_notifier.notified()
\* and consumer.recv().
SingleWaitSelect ==
    /\ cpc = "stream_pause"
    /\ waiting' = waiting \cup {Coordinator}
    /\ cpc' = "stream_wait"
    /\ UNCHANGED <<SingleFrame, command_queue, queue_state, woken, resumed_by,
                   download_status, result, downloaded_bytes, fileVars,
                   singleVars, w_dirty, fails>>

\* What the pause loop does with the command either arm hands over.
SinglePausedCommandRecvSkipsResume(cmd, arm) ==
    IF cmd = "Resume" /\ arm = "recv"
    THEN /\ cpc' = "stream_pause"
         /\ UNCHANGED <<download_status, result, resumed_by>>
    ELSE CASE cmd = "Resume" ->
                /\ download_status' = "Running"
                /\ cpc' = "stream"
                /\ resumed_by' = arm
                /\ UNCHANGED result
           [] cmd = "Cancel" ->
                /\ download_status' = "Canceled"
                /\ result' = [tag |-> "Cancelled"]
                /\ cpc' = "returned"
                /\ UNCHANGED resumed_by
           [] cmd = "Pause" ->
                /\ cpc' = "stream_pause"
                /\ UNCHANGED <<download_status, result, resumed_by>>

SinglePausedCommand(cmd, arm) ==
    CASE cmd = "Resume" ->
           /\ download_status' = "Running"
           /\ cpc' = "stream"
           /\ resumed_by' = arm
           /\ UNCHANGED result
      [] cmd = "Cancel" ->
           /\ download_status' = "Canceled"
           /\ result' = [tag |-> "Cancelled"]
           /\ cpc' = "returned"
           /\ UNCHANGED resumed_by
      [] cmd = "Pause" ->
           /\ cpc' = "stream_pause"
           /\ UNCHANGED <<download_status, result, resumed_by>>

\* Inner select! arm `_ = resume_notifier.notified()`: consumer.try_recv().
SingleWaitNotified ==
    /\ cpc = "stream_wait"
    /\ Coordinator \in woken
    /\ woken' = woken \ {Coordinator}
    /\ IF command_queue # <<>>
       THEN /\ QueueRecv
            /\ SinglePausedCommand(Head(command_queue), "notified")
       ELSE /\ cpc' = "stream_pause"
            /\ UNCHANGED <<command_queue, queue_state, download_status, result,
                           resumed_by>>
    /\ UNCHANGED <<SingleFrame, waiting, downloaded_bytes, fileVars, singleVars,
                   w_dirty, fails>>

\* Inner select! arm `cmd = consumer.recv()`; the Notified future is dropped.
SingleWaitRecv ==
    /\ cpc = "stream_wait"
    /\ command_queue # <<>>
    /\ QueueRecv
    /\ waiting' = waiting \ {Coordinator}
    /\ woken' = woken \ {Coordinator}
    /\ SinglePausedCommand(Head(command_queue), "recv")
    /\ UNCHANGED <<SingleFrame, downloaded_bytes, fileVars, singleVars, w_dirty, fails>>

\* select! arm `chunk_result = stream.next()`: Some(Ok(chunk)).
SingleChunk ==
    /\ cpc = "stream"
    /\ command_queue = <<>>
    /\ st_bytes_done < total
    /\ LET chunk == NextSubChunk(ServeFull(total), st_bytes_done) IN
       /\ st_bytes_done' = st_bytes_done + Len(chunk)
       /\ IF download_mode = "SaveFile"
          THEN /\ file_bytes' = WriteAt(file_bytes, file_cursor, chunk)
               /\ file_cursor' = file_cursor + Len(chunk)
               /\ UNCHANGED out_bytes
          ELSE /\ out_bytes' = out_bytes \o chunk
               /\ UNCHANGED <<file_bytes, file_cursor>>
       /\ Publish(st_bytes_done + Len(chunk))
    /\ UNCHANGED <<SingleFrame, waiting, woken, resumed_by, command_queue,
                   queue_state, download_status, cpc, result, file_exists, fails>>

\* ... Some(Err(e)): return Err(Request(e)).
SingleChunkFail ==
    /\ cpc = "stream"
    /\ command_queue = <<>>
    /\ st_bytes_done < total
    /\ fails < MaxFails
    /\ fails' = fails + 1
    /\ result' = [tag |-> "Request"]
    /\ cpc' = "returned"
    /\ UNCHANGED <<SingleFrame, waiting, woken, resumed_by, command_queue,
                   queue_state, download_status, downloaded_bytes, fileVars,
                   singleVars, w_dirty>>

\* ... None: flush, status Finished, Ok(..).
SingleEnd ==
    /\ cpc = "stream"
    /\ command_queue = <<>>
    /\ st_bytes_done = total
    /\ download_status' = "Finished"
    /\ result' = IF download_mode = "OutputBytes"
                 THEN [tag |-> "Ok", kind |-> "Bytes", value |-> out_bytes]
                 ELSE [tag |-> "Ok", kind |-> "SavedToLocal"]
    /\ cpc' = "returned"
    /\ UNCHANGED <<SingleFrame, waiting, woken, resumed_by, command_queue,
                   queue_state, downloaded_bytes, fileVars, singleVars, w_dirty,
                   fails>>

\* ---------------------------------------------------------------- queue_reactive.rs
\* NumProducers clones of one QueueReactiveProperty send concurrently; the
\* single QueueReactiveConsumer receives with recv() and try_recv().
\* Producer p sends the values <<p, 1>>, <<p, 2>>, ...
QueueFrame == <<cfgVars, dlVars, lockVars, hookVars, unlockVars, sendVars, segVars, urlVars>>

\* mpsc::UnboundedSender::send
ChanPushFront(chan, value) == <<value>> \o chan
ChanPush(chan, value) == Append(chan, value)

\* The value producer p is sending, or will send next.
NextValue(p) == <<p, q_prod[p].sent + 1>>

\* QueueReactiveProperty::send, first statement: state.update(Some(value)).
ProducerUpdate(p) ==
    /\ q_prod[p].pc = "idle"
    /\ q_prod[p].sent < MaxMsgs
    /\ q_state' = <<NextValue(p)>>
    /\ q_prod' = [q_prod EXCEPT ![p].pc = "enqueue"]
    /\ UNCHANGED <<QueueFrame, q_chan, q_cons, q_recvd, q_last>>

\* QueueReactiveProperty::send, second statement: sender.send(value).
ProducerEnqueue(p) ==
    /\ q_prod[p].pc = "enqueue"
    /\ q_chan' = ChanPush(q_chan, NextValue(p))
    /\ q_last' = <<NextValue(p)>>
    /\ q_prod' = [q_prod EXCEPT ![p].pc = "idle", ![p].sent = q_prod[p].sent + 1]
    /\ UNCHANGED <<QueueFrame, q_state, q_cons, q_recvd>>

\* receiver.recv().await / receiver.try_recv() with a value in the channel.
ConsumerTake(how) ==
    /\ q_cons.pc = "idle"
    /\ q_chan # <<>>
    /\ q_chan' = Tail(q_chan)
    /\ q_cons' = [pc |-> "update", value |-> <<Head(q_chan)>>,
                  used |-> q_cons.used \cup {how}]
    /\ q_recvd' = Append(q_recvd, Head(q_chan))
    /\ UNCHANGED <<QueueFrame, q_state, q_prod, q_last>>

\* QueueReactiveConsumer::recv
ConsumerRecv == ConsumerTake("recv")

\* QueueReactiveConsumer::try_recv, Ok(value)
ConsumerTryRecv == ConsumerTake("try_recv")

\* QueueReactiveConsumer::try_recv, Err(_): None, nothing changes.
ConsumerTryRecvEmpty ==
    /\ q_cons.pc = "idle"
    /\ q_chan = <<>>
    /\ "empty" \notin q_cons.used
    /\ q_cons' = [q_cons EXCEPT !.used = q_cons.used \cup {"empty"}]
    /\ UNCHANGED <<QueueFrame, q_chan, q_state, q_prod, q_recvd, q_last>>

\* recv / try_recv after the receive: state.update(Some(value)); return.
ConsumerUpdate ==
    /\ q_cons.pc = "update"
    /\ q_state' = q_cons.value
    /\ q_cons' = [q_cons EXCEPT !.pc = "idle"]
    /\ UNCHANGED <<QueueFrame, q_chan, q_prod, q_recvd, q_last>>

\* ---------------------------------------------------------------- lock_reactive.rs
\* One LockReactiveProperty<i32> shared by NumWaiters tasks, each calling
\* wait_until(|v| *v == 1) once, and by two tasks calling update,
\* get_current and destroy.
LockFrame == <<cfgVars, dlVars, queueVars, hookVars, unlockVars, sendVars, segVars, urlVars>>

\* The predicate the waiters pass to wait_until.
Satisfies(v) == v = 1

\* Notify::notify_waiters: the Notified futures it completes.
LockNotifyOne(ws) == IF ws = {} THEN {} ELSE {CHOOSE w \in ws : TRUE}
LockNotifyWaiters(ws) == ws

\* `if guard.is_none() { return Err(Destroyed) }` of update
UpdateNeverRefused(value) == FALSE
UpdateRefused(value) == value = <<>>

\* wait_until is called.
WaitCall(w) ==
    /\ l_wait[w].pc = "idle"
    /\ l_wait' = [l_wait EXCEPT ![w].pc = "register"]
    /\ UNCHANGED <<LockFrame, l_value, l_mutex, l_waiting, l_woken, l_call>>

\* let notified = self.inner.notify.notified();
WaitRegister(w) ==
    /\ l_wait[w].pc = "register"
    /\ l_waiting' = l_waiting \cup {w}
    /\ l_woken' = l_woken \ {w}
    /\ l_wait' = [l_wait EXCEPT ![w].pc = "lock"]
    /\ UNCHANGED <<LockFrame, l_value, l_mutex, l_call>>

\* let guard = self.inner.value.lock().await;
WaitLock(w) ==
    /\ l_wait[w].pc = "lock"
    /\ l_mutex = Free
    /\ l_mutex' = w
    /\ l_wait' = [l_wait EXCEPT ![w].pc = "test"]
    /\ UNCHANGED <<LockFrame, l_value, l_waiting, l_woken, l_call>>

\* match guard.as_ref() { None => Err(Destroyed), Some(v) => if predicate(v)
\* { Ok(()) } }; drop(guard). Returning drops the Notified future.
WaitTest(w) ==
    /\ l_wait[w].pc = "test"
    /\ l_mutex' = Free
    /\ IF l_value = <<>>
       THEN /\ l_wait' = [l_wait EXCEPT ![w].pc = "done", ![w].ret = "Destroyed"]
            /\ l_waiting' = l_waiting \ {w}
            /\ l_woken' = l_woken \ {w}
       ELSE IF Satisfies(l_value[1])
       THEN /\ l_wait' = [l_wait EXCEPT ![w].pc = "done", ![w].ret = "Ok"]
            /\ l_waiting' = l_waiting \ {w}
            /\ l_woken' = l_woken \ {w}
       ELSE /\ l_wait' = [l_wait EXCEPT ![w].pc = "await"]
            /\ UNCHANGED <<l_waiting, l_woken>>
    /\ UNCHANGED <<LockFrame, l_value, l_call>>

\* notified.await returns; next iteration of the loop.
WaitAwait(w) ==
    /\ l_wait[w].pc = "await"
    /\ w \in l_woken
    /\ l_woken' = l_woken \ {w}
    /\ l_wait' = [l_wait EXCEPT ![w].pc = "register"]
    /\ UNCHANGED <<LockFrame, l_value, l_mutex, l_waiting, l_call>>

WaitStep(w) ==
    \/ WaitRegister(w)
    \/ WaitLock(w)
    \/ WaitTest(w)
    \/ WaitAwait(w)

\* update(new_value), get_current() or destroy() is called.
CallOp(c, op, arg) ==
    /\ l_call[c].pc = "idle"
    /\ l_call[c].ops < MaxOps
    /\ l_call' = [l_call EXCEPT ![c] = [pc |-> "lock", op |-> op, arg |-> arg,
                                        ret |-> "none", ops |-> l_call[c].ops + 1]]
    /\ UNCHANGED <<LockFrame, l_value, l_mutex, l_waiting, l_woken, l_wait>>

CallUpdate(c) == \E v \in Values : CallOp(c, "update", v)
CallGetCurrent(c) == CallOp(c, "get_current", 0)
CallDestroy(c) == CallOp(c, "destroy", 0)

\* self.inner.value.lock().await of update, get_current and destroy
CallLock(c) ==
    /\ l_call[c].pc = "lock"
    /\ l_mutex = Free
    /\ l_mutex' = c
    /\ l_call' = [l_call EXCEPT ![c].pc = "locked"]
    /\ UNCHANGED <<LockFrame, l_value, l_waiting, l_woken, l_wait>>

\* update under the lock: refuse a destroyed cell (return Err(Destroyed)),
\* else store (Ok(()) once the waiters are notified); drop(guard).
UpdateStore(c) ==
    /\ l_call[c].pc = "locked"
    /\ l_call[c].op = "update"
    /\ l_mutex' = Free
    /\ IF UpdateRefused(l_value)
       THEN /\ l_call' = [l_call EXCEPT ![c].pc = "idle", ![c].arg = 0,
                                        ![c].ret = "Destroyed"]
            /\ UNCHANGED l_value
       ELSE /\ l_value' = <<l_call[c].arg>>
            /\ l_call' = [l_call EXCEPT ![c].pc = "notify", ![c].arg = 0,
                                        ![c].ret = "Ok"]
    /\ UNCHANGED <<LockFrame, l_waiting, l_woken, l_wait>>

\* destroy under the lock: *guard = None; drop(guard).
DestroyStore(c) ==
    /\ l_call[c].pc = "locked"
    /\ l_call[c].op = "destroy"
    /\ l_mutex' = Free
    /\ l_value' = <<>>
    /\ l_call' = [l_call EXCEPT ![c].pc = "notify"]
    /\ UNCHANGED <<LockFrame, l_waiting, l_woken, l_wait>>

\* get_current under the lock: the clone of the value, or Err(Destroyed).
GetCurrent(c) ==
    /\ l_call[c].pc = "locked"
    /\ l_call[c].op = "get_current"
    /\ l_mutex' = Free
    /\ l_call' = [l_call EXCEPT ![c].pc = "idle",
                    ![c].ret = IF l_value = <<>> THEN "Destroyed" ELSE "Ok"]
    /\ UNCHANGED <<LockFrame, l_value, l_waiting, l_woken, l_wait>>

\* self.inner.notify.notify_waiters() of update and destroy; return.
CallNotify(c) ==
    /\ l_call[c].pc = "notify"
    /\ l_woken' = l_woken \cup LockNotifyWaiters(l_waiting)
    /\ l_waiting' = l_waiting \ LockNotifyWaiters(l_waiting)
    /\ l_call' = [l_call EXCEPT ![c].pc = "idle"]
    /\ UNCHANGED <<LockFrame, l_value, l_mutex, l_wait>>

CallStep(c) ==
    \/ CallLock(c)
    \/ UpdateStore(c)
    \/ DestroyStore(c)
    \/ GetCurrent(c)
    \/ CallNotify(c)

\* try_update(new_value) is called.
CallTryUpdate(c) ==
    /\ l_call[c].pc = "idle"
    /\ l_call[c].ops < MaxOps
    /\ \E v \in Values :
          l_call' = [l_call EXCEPT ![c] = [pc |-> "try_lock", op |-> "try_update",
                                          arg |-> v, ret |-> "none",
                                          ops |-> l_call[c].ops + 1]]
    /\ UNCHANGED <<LockFrame, l_value, l_mutex, l_waiting, l_woken, l_wait>>

\* Mutex::try_lock: Ok(guard) exactly when nobody holds the lock.
TryLockAlways(holder) == TRUE
TryLockAcquires(holder) == holder = Free

\* match self.inner.value.try_lock(): Ok(guard), or Err(_) => Ok(false).
TryLock(c) ==
    /\ l_call[c].pc = "try_lock"
    /\ IF TryLockAcquires(l_mutex)
       THEN /\ l_mutex' = c
            /\ l_call' = [l_call EXCEPT ![c].pc = "locked"]
       ELSE /\ l_call' = [l_call EXCEPT ![c].pc = "idle", ![c].arg = 0,
                                        ![c].ret = "false"]
            /\ UNCHANGED l_mutex
    /\ UNCHANGED <<LockFrame, l_value, l_waiting, l_woken, l_wait>>

\* try_update under the lock: refuse a destroyed cell (Err(Destroyed)), else
\* store (Ok(true) once the waiters are notified); drop(guard).
TryUpdateStore(c) ==
    /\ l_call[c].pc = "locked"
    /\ l_call[c].op = "try_update"
    /\ l_mutex' = Free
    /\ IF l_value = <<>>
       THEN /\ l_call' = [l_call EXCEPT ![c].pc = "idle", ![c].arg = 0,
                                        ![c].ret = "Destroyed"]
            /\ UNCHANGED l_value
       ELSE /\ l_value' = <<l_call[c].arg>>
            /\ l_call' = [l_call EXCEPT ![c].pc = "notify", ![c].arg = 0,
                                        ![c].ret = "true"]
    /\ UNCHANGED <<LockFrame, l_waiting, l_woken, l_wait>>

TryStep(c) ==
    \/ TryLock(c)
    \/ TryUpdateStore(c)

\* ---------------------------------------------------------------- unlock_reactive
\* A value is identified with its rank among the published values: the k-th
\* update publishes k.
UnlockFrame == <<cfgVars, dlVars, queueVars, lockVars, hookVars, sendVars, segVars, urlVars>>

\* The watchers that exist: each owns a Receiver and an Arc<Inner>.
WatchersAlive == {w \in Watchers : u_watch[w].pc \notin {"none", "dropped"}}

\* The owners of Inner's Arc: the property handles, and the watchers.
InnerOwners(handles, watchers) == handles + Cardinality(watchers)

\* Drop for Inner (the last Arc<Inner> goes): is_dropped = true and
\* sender.send(None), which stores nothing when no receiver is left.
InnerDropped(handles, watchers) == InnerOwners(handles, watchers) = 0

\* UnlockReactiveProperty::update: sender.send(Some(new_value)).
PropUpdate ==
    /\ u_handles > 0
    /\ u_version < MaxMsgs
    /\ ~u_dropped
    /\ u_value' = <<u_version + 1>>
    /\ u_version' = u_version + 1
    /\ UNCHANGED <<UnlockFrame, u_field, u_handles, u_dropped, u_watch>>

\* #[derive(Clone)] of UnlockReactiveProperty
PropClone ==
    /\ u_handles = 1
    /\ u_handles' = 2
    /\ UNCHANGED <<UnlockFrame, u_field, u_value, u_version, u_dropped, u_watch>>

\* A handle is dropped; with the last owner Inner is dropped.
PropDrop ==
    /\ u_handles > 0
    /\ u_handles' = u_handles - 1
    /\ IF InnerDropped(u_handles - 1, WatchersAlive)
       THEN u_dropped' = TRUE /\ u_value' = <<>> /\ u_version' = u_version + 1
       ELSE UNCHANGED <<u_dropped, u_value, u_version>>
    /\ UNCHANGED <<UnlockFrame, u_field, u_watch>>

\* UnlockReactiveProperty::watch: sender.subscribe(), Arc::clone(&inner).
PropWatch(w) ==
    /\ u_handles > 0
    /\ u_watch[w].pc = "none"
    /\ u_watch' = [u_watch EXCEPT ![w].pc = "idle", ![w].seen = u_version]
    /\ UNCHANGED <<UnlockFrame, u_field, u_value, u_version, u_handles, u_dropped>>

\* The watcher is dropped; with the last owner Inner is dropped.
WatcherDrop(w) ==
    /\ u_watch[w].pc = "idle"
    /\ u_watch' = [u_watch EXCEPT ![w].pc = "dropped"]
    /\ IF InnerDropped(u_handles, WatchersAlive \ {w})
       THEN u_dropped' = TRUE /\ u_value' = <<>> /\ u_version' = u_version + 1
       ELSE UNCHANGED <<u_dropped, u_value, u_version>>
    /\ UNCHANGED <<UnlockFrame, u_field, u_handles>>

\* PropertyWatcher::changed is called.
WatcherCall(w) ==
    /\ u_watch[w].pc = "idle"
    /\ u_watch' = [u_watch EXCEPT ![w].pc = "changed", ![w].ret = "none"]
    /\ UNCHANGED <<UnlockFrame, u_field, u_value, u_version, u_handles, u_dropped>>

\* self.receiver.changed().await?: returns once the version differs from the
\* one the receiver has seen, and marks it seen. (The sender lives in Inner,
\* which the watcher owns, so the channel is not closed under a watcher.)
WatcherAwait(w) ==
    /\ u_watch[w].pc = "changed"
    /\ u_version # u_watch[w].seen
    /\ u_watch' = [u_watch EXCEPT ![w].pc = "borrow", ![w].seen = u_version]
    /\ UNCHANGED <<UnlockFrame, u_field, u_value, u_version, u_handles, u_dropped>>

\* match self.receiver.borrow().as_ref(): the value the channel holds now.
WatcherBorrow(w) ==
    /\ u_watch[w].pc = "borrow"
    /\ IF u_value = <<>>
       THEN u_watch' = [u_watch EXCEPT ![w].pc = "idle", ![w].ret = "WatcherClosed"]
       ELSE u_watch' = [u_watch EXCEPT ![w].pc = "idle", ![w].ret = "Ok",
                                       ![w].got = Append(u_watch[w].got, u_value[1])]
    /\ UNCHANGED <<UnlockFrame, u_field, u_value, u_version, u_handles, u_dropped>>

WatcherStep(w) ==
    \/ WatcherAwait(w)
    \/ WatcherBorrow(w)

\* UnlockReactiveProperty::update_field, up to the updater: the is_dropped
\* load, then cache_receiver.borrow().clone(). Nothing is held between this
\* read and the send that follows.
FieldLoad(t) ==
    /\ u_handles > 0
    /\ u_field[t].pc = "idle"
    /\ u_field[t].applied < MaxIncrements
    /\ ~u_dropped
    /\ u_value # <<>>
    /\ u_field' = [u_field EXCEPT ![t].pc = "loaded", ![t].current = u_value[1]]
    /\ UNCHANGED <<UnlockFrame, u_value, u_version, u_handles, u_dropped, u_watch>>

\* The updater of the claim: an increment of the loaded value.
Increment(current) == current + 1

\* updater(&mut current); sender.send(Some(current)).
FieldSend(t) ==
    /\ u_field[t].pc = "loaded"
    /\ u_value' = <<Increment(u_field[t].current)>>
    /\ u_version' = u_version + 1
    /\ u_field' = [u_field EXCEPT ![t].pc = "idle", ![t].applied = @ + 1]
    /\ UNCHANGED <<UnlockFrame, u_handles, u_dropped, u_watch>>

UpdateFieldStep(t) ==
    \/ FieldLoad(t)
    \/ FieldSend(t)

\* ---------------------------------------------------------------- remote_file_downloader/chunked_download
\* The hook-based downloader's chunked path in save-to-file mode. Sizes and
\* offsets are counted in blocks of 2 MiB: CHUNK_SIZE (4 MiB) is 2 blocks,
\* and the server's block at offset o is ServerByte(o).
HookFrame == <<cfgVars, dlVars, queueVars, lockVars, unlockVars, sendVars, segVars, urlVars>>

CHUNK_SIZE == 2

\* range_header: "bytes={start}-{end.saturating_sub(1)}"
range_header(start, end_exclusive) ==
    <<start, IF end_exclusive >= 1 THEN end_exclusive - 1 ELSE 0>>

\* max_concurrent_from_config
max_concurrent_from_config(n) == IF n > 1 THEN n ELSE 2

\* `if local_len >= params.total` of compute_resume_start
AlreadyCompleteStrict(local_len, tot) == local_len > tot
AlreadyCompleteWhen(local_len, tot) == local_len >= tot

\* compute_resume_start: the outcome, whether progress (total, total) is
\* published and whether the local file is removed.
compute_resume_start(has_save_path, output_bytes, exists, local_file, tot) ==
    LET local_len == IF exists THEN Len(local_file) ELSE 0 IN
    IF ~has_save_path \/ output_bytes
    THEN [tag |-> "DownloadFrom", start |-> 0, publish |-> FALSE, remove |-> FALSE]
    ELSE IF AlreadyCompleteWhen(local_len, tot)
    THEN [tag |-> "AlreadyComplete", start |-> 0, publish |-> TRUE, remove |-> FALSE]
    ELSE IF local_len > tot
    THEN [tag |-> "DownloadFrom", start |-> 0, publish |-> FALSE, remove |-> TRUE]
    ELSE [tag |-> "DownloadFrom", start |-> local_len, publish |-> FALSE,
          remove |-> FALSE]

\* spawn_range_tasks: one task per [range_start, end) from `start` to total.
NewRangeTask(range_start, end_exclusive) ==
    [pc |-> "acquire", lo |-> range_start, hi |-> end_exclusive,
     range |-> range_header(range_start, end_exclusive),
     file_offset |-> range_start, got |-> 0, current |-> 0]

RECURSIVE spawn_range_tasks(_, _)
spawn_range_tasks(range_start, tot) ==
    IF range_start < tot
    THEN LET end_exclusive == Min(range_start + CHUNK_SIZE, tot)
         IN  <<NewRangeTask(range_start, end_exclusive)>>
                 \o spawn_range_tasks(end_exclusive, tot)
    ELSE <<>>

RangeTasks == DOMAIN h_tasks

\* send() of a downloader built for the save path with
\* max_concurrent_chunks > 1 -> run_chunked_download:
\* progress (0, total), the resume check, the file opened with create+write
\* (not truncated) unless already complete, the fan-out.
HookStart ==
    /\ h_pc \in {"idle", "returned"}
    /\ Len(h_runs) < MaxRuns
    /\ max_chunks > 1
    /\ download_mode = "SaveFile"
    /\ LET outcome == compute_resume_start(TRUE, FALSE, h_file_exists, h_file, total)
           kept == h_file_exists /\ ~outcome.remove
       IN  /\ h_outcome' = [tag |-> outcome.tag, start |-> outcome.start]
           /\ h_progress' = IF outcome.publish THEN total ELSE 0
           /\ h_runs' = Append(h_runs, IF outcome.tag = "AlreadyComplete"
                                       THEN "returned" ELSE "running")
           /\ IF outcome.tag = "AlreadyComplete"
              THEN /\ h_result' = [tag |-> "Ok", kind |-> "Saved"]
                   /\ h_pc' = "returned"
                   /\ h_tasks' = <<>>
                   /\ UNCHANGED <<h_file_exists, h_file>>
              ELSE /\ h_result' = NoResult
                   /\ h_pc' = "join"
                   /\ h_tasks' = spawn_range_tasks(outcome.start, total)
                   /\ h_file_exists' = TRUE
                   /\ h_file' = IF kept THEN h_file ELSE <<>>
    /\ h_cursor' = 0
    /\ h_bytes_done' = 0
    /\ h_permits' = max_concurrent_from_config(max_chunks)
    /\ h_requests' = 0
    /\ UNCHANGED HookFrame

\* compute_resume_start called on its own: the outcome, progress
\* (total, total) when already complete, fs::remove_file when it says so.
ResumeCheck ==
    /\ h_pc = "idle"
    /\ LET outcome == compute_resume_start(s_cfg.save, s_cfg.bytes,
                                           h_file_exists, h_file, total)
       IN  /\ h_outcome' = [tag |-> outcome.tag, start |-> outcome.start]
           /\ h_progress' = IF outcome.publish THEN total ELSE h_progress
           /\ h_file_exists' = (h_file_exists /\ ~outcome.remove)
           /\ h_file' = IF outcome.remove THEN <<>> ELSE h_file
    /\ h_pc' = "checked"
    /\ UNCHANGED <<HookFrame, h_cursor, h_bytes_done, h_permits, h_tasks,
                   h_result, h_requests, h_runs>>

\* spawn_range_tasks by itself, from the start offset of the resume check.
RangeFanOut ==
    /\ h_pc = "idle"
    /\ h_outcome.tag = "DownloadFrom"
    /\ h_pc' = "spawned"
    /\ h_tasks' = spawn_range_tasks(h_outcome.start, total)
    /\ UNCHANGED <<HookFrame, h_file_exists, h_file, h_cursor, h_progress,
                   h_bytes_done, h_permits, h_outcome, h_result, h_requests,
                   h_runs>>

\* The process is interrupted while the transfer runs: its tasks are gone,
\* the file stays as written so far.
HookCrash ==
    /\ h_pc = "join"
    /\ h_pc' = "idle"
    /\ h_tasks' = <<>>
    /\ h_runs' = [h_runs EXCEPT ![Len(h_runs)] = "crashed"]
    /\ UNCHANGED <<HookFrame, h_file_exists, h_file, h_cursor, h_progress,
                   h_bytes_done, h_permits, h_outcome, h_result, h_requests>>

\* join_range_handles returns Ok(()): Saved.
HookFinish ==
    /\ h_pc = "join"
    /\ \A t \in RangeTasks : h_tasks[t].pc = "done"
    /\ h_pc' = "returned"
    /\ h_result' = [tag |-> "Ok", kind |-> "Saved"]
    /\ h_runs' = [h_runs EXCEPT ![Len(h_runs)] = "returned"]
    /\ UNCHANGED <<HookFrame, h_file_exists, h_file, h_cursor, h_progress,
                   h_bytes_done, h_permits, h_tasks, h_outcome, h_requests>>

\* The body of the range response of task t and its next sub-chunk.
RangeBody(t) ==
    IF range_support THEN ServeRange(h_tasks[t].range, total) ELSE ServeFull(total)
RangeSubChunk(t) == NextSubChunk(RangeBody(t), h_tasks[t].got)

\* sem.acquire_owned().await
RangeAcquire(t) ==
    /\ h_tasks[t].pc = "acquire"
    /\ h_permits > 0
    /\ h_permits' = h_permits - 1
    /\ h_tasks' = [h_tasks EXCEPT ![t].pc = "check"]
    /\ UNCHANGED <<HookFrame, h_file_exists, h_file, h_cursor, h_progress,
                   h_bytes_done, h_pc, h_outcome, h_result, h_requests, h_runs>>

\* download_one_range: `if params.hooks.lock().await.cancel_requested()`
\* returns Err(Cancelled), and the permit is dropped with the task.
RangeCheckCancel(t) ==
    /\ h_tasks[t].pc = "check"
    /\ IF s_cancel
       THEN /\ h_tasks' = [h_tasks EXCEPT ![t].pc = "failed"]
            /\ h_permits' = h_permits + 1
       ELSE /\ h_tasks' = [h_tasks EXCEPT ![t].pc = "request"]
            /\ UNCHANGED h_permits
    /\ UNCHANGED <<HookFrame, h_file_exists, h_file, h_cursor, h_progress,
                   h_bytes_done, h_pc, h_outcome, h_result, h_requests, h_runs>>

\* download_one_range: fetch_range_response(..).await
RangeRequest(t) ==
    /\ h_tasks[t].pc = "request"
    /\ h_requests' = h_requests + 1
    /\ h_tasks' = [h_tasks EXCEPT ![t].pc = "next"]
    /\ UNCHANGED <<HookFrame, h_file_exists, h_file, h_cursor, h_progress,
                   h_bytes_done, h_permits, h_pc, h_outcome, h_result, h_runs>>

\* stream.next().await: a sub-chunk for handle_one_chunk, or the end of the
\* stream, Ok(()) and the permit dropped.
RangeNext(t) ==
    /\ h_tasks[t].pc = "next"
    /\ IF h_tasks[t].got < Len(RangeBody(t))
       THEN /\ h_tasks' = [h_tasks EXCEPT ![t].pc = "seek"]
            /\ UNCHANGED h_permits
       ELSE /\ h_tasks' = [h_tasks EXCEPT ![t].pc = "done"]
            /\ h_permits' = h_permits + 1
    /\ UNCHANGED <<HookFrame, h_file_exists, h_file, h_cursor, h_progress,
                   h_bytes_done, h_pc, h_outcome, h_result, h_requests, h_runs>>

\* handle_one_chunk: f.seek(SeekFrom::Start(*file_offset)).await on the
\* task's clone of the handle; the clones share one position.
RangeSeek(t) ==
    /\ h_tasks[t].pc = "seek"
    /\ h_cursor' = h_tasks[t].file_offset
    /\ h_tasks' = [h_tasks EXCEPT ![t].pc = "write"]
    /\ UNCHANGED <<HookFrame, h_file_exists, h_file, h_progress, h_bytes_done,
                   h_permits, h_pc, h_outcome, h_result, h_requests, h_runs>>

\* handle_one_chunk: f.write_all(&chunk).await; *file_offset += len
RangeWrite(t) ==
    /\ h_tasks[t].pc = "write"
    /\ h_file' = WriteAt(h_file, h_cursor, RangeSubChunk(t))
    /\ h_cursor' = h_cursor + Len(RangeSubChunk(t))
    /\ h_tasks' = [h_tasks EXCEPT ![t].pc = "add",
                      ![t].file_offset = h_tasks[t].file_offset + Len(RangeSubChunk(t))]
    /\ UNCHANGED <<HookFrame, h_file_exists, h_progress, h_bytes_done,
                   h_permits, h_pc, h_outcome, h_result, h_requests, h_runs>>

\* handle_one_chunk: let current = bytes_done.fetch_add(len, Relaxed) + len
RangeAdd(t) ==
    /\ h_tasks[t].pc = "add"
    /\ h_bytes_done' = h_bytes_done + Len(RangeSubChunk(t))
    /\ h_tasks' = [h_tasks EXCEPT ![t].pc = "publish",
                      ![t].current = h_bytes_done + Len(RangeSubChunk(t))]
    /\ UNCHANGED <<HookFrame, h_file_exists, h_file, h_cursor, h_progress,
                   h_permits, h_pc, h_outcome, h_result, h_requests, h_runs>>

\* handle_one_chunk: progress.update(..), the hooks; back to the stream.
RangePublish(t) ==
    /\ h_tasks[t].pc = "publish"
    /\ h_progress' = h_tasks[t].current
    /\ h_tasks' = [h_tasks EXCEPT ![t].pc = "next", ![t].current = 0,
                      ![t].got = h_tasks[t].got + Len(RangeSubChunk(t))]
    /\ UNCHANGED <<HookFrame, h_file_exists, h_file, h_cursor, h_bytes_done,
                   h_permits, h_pc, h_outcome, h_result, h_requests, h_runs>>

\* fetch_range_response(..).await? or chunk_result.map_err(Request)? fails:
\* the task returns Err(Request) and drops its permit.
RangeFail(t) ==
    /\ h_tasks[t].pc \in {"request", "next"}
    /\ h_tasks' = [h_tasks EXCEPT ![t].pc = "error"]
    /\ h_permits' = h_permits + 1
    /\ UNCHANGED <<HookFrame, h_file_exists, h_file, h_cursor, h_progress,
                   h_bytes_done, h_pc, h_outcome, h_result, h_requests, h_runs>>

RangeStep(t) ==
    \/ RangeAcquire(t)
    \/ RangeCheckCancel(t)
    \/ RangeRequest(t)
    \/ RangeNext(t)
    \/ RangeSeek(t)
    \/ RangeWrite(t)
    \/ RangeAdd(t)
    \/ RangePublish(t)

\* ---------------------------------------------------------------- remote_file_downloader: send and hooks
SendFrame == <<cfgVars, dlVars, queueVars, lockVars, unlockVars, segVars, urlVars>>
RangeVars == <<h_cursor, h_bytes_done, h_permits, h_tasks, h_pc, h_outcome,
               h_result, h_runs>>
SendErr(kind) == [tag |-> "Err", kind |-> kind]

\* let is_multi = match self.config.max_concurrent_chunks { Some(n) => n > 1, .. }
IsMulti == max_chunks > 1

\* DownloadHooksContainer::run_before_start: the hooks whose before_start is
\* called, in calling order: every hook up to the first that aborts.
RECURSIVE BeforeStartFrom(_, _)
BeforeStartFrom(hooks, i) ==
    IF i > Len(hooks) THEN <<>>
    ELSE IF hooks[i] = "abort" THEN <<i>>
    ELSE <<i>> \o BeforeStartFrom(hooks, i + 1)
run_before_start_all(hooks) == [i \in 1..Len(hooks) |-> i]
run_before_start(hooks) == BeforeStartFrom(hooks, 1)

\* DownloadHooksContainer::run_after_complete: every hook, in the order of
\* the Vec.
run_after_complete_reversed(hooks) == [i \in 1..Len(hooks) |-> Len(hooks) + 1 - i]
run_after_complete(hooks) == [i \in 1..Len(hooks) |-> i]

HookPass == IF s_pc = "before_start" THEN run_before_start(s_cfg.hooks)
            ELSE run_after_complete(s_cfg.hooks)

\* What send() and the entry of run_single_thread_download /
\* run_chunked_download return before any hook runs; "ok" to go on.
EntryChecks(cfg, multi) ==
    IF multi
    THEN IF ~cfg.size_known THEN "UnknownFileSizeForChunked"
         ELSE IF ~cfg.save /\ ~cfg.bytes THEN "NoDestination"
         ELSE "ok"
    ELSE IF cfg.is_dir THEN "IsDir"
         ELSE IF ~cfg.save /\ ~cfg.bytes THEN "NoDestination"
         ELSE "ok"

\* send(): the dispatch and the checks that come before the hooks.
SendCall ==
    /\ s_pc = "built"
    /\ IF EntryChecks(s_cfg, IsMulti) = "ok"
       THEN /\ s_pc' = "before_start"
            /\ s_hook' = 1
            /\ UNCHANGED s_result
       ELSE /\ s_pc' = "returned"
            /\ s_result' = SendErr(EntryChecks(s_cfg, IsMulti))
            /\ UNCHANGED s_hook
    /\ UNCHANGED <<SendFrame, hookVars, s_cfg, s_inside, s_log, s_cancel,
                   s_out_bytes, s_got>>

\* request_cancel(): cancel_requested.store(true)
RequestCancel ==
    /\ s_pc # "returned"
    /\ ~s_cancel
    /\ s_cancel' = TRUE
    /\ UNCHANGED <<SendFrame, hookVars, s_cfg, s_pc, s_hook, s_inside, s_log,
                   s_out_bytes, s_got, s_result>>

\* `for h in self.hooks.iter_mut()`: the next hook's before_start() or
\* after_complete() is called.
HookEnter ==
    /\ s_pc \in {"before_start", "after_complete"}
    /\ ~s_inside
    /\ s_hook <= Len(HookPass)
    /\ s_inside' = TRUE
    /\ s_log' = Append(s_log, <<s_pc, "begin", HookPass[s_hook]>>)
    /\ UNCHANGED <<SendFrame, hookVars, s_cfg, s_pc, s_hook, s_cancel,
                   s_out_bytes, s_got, s_result>>

\* h.before_start().await? / h.after_complete().await returns; the pass of
\* before_start ends with HookAbort when it ran into an abort.
HookLeave ==
    /\ s_inside
    /\ s_inside' = FALSE
    /\ s_log' = Append(s_log, <<s_pc, "end", HookPass[s_hook]>>)
    /\ IF /\ s_pc = "before_start"
          /\ s_hook = Len(HookPass)
          /\ \E k \in 1..Len(HookPass) : s_cfg.hooks[HookPass[k]] = "abort"
       THEN /\ s_pc' = "returned"
            /\ s_result' = SendErr("HookAbort")
            /\ s_hook' = 0
       ELSE /\ s_hook' = s_hook + 1
            /\ UNCHANGED <<s_pc, s_result>>
    /\ UNCHANGED <<SendFrame, hookVars, s_cfg, s_cancel, s_out_bytes, s_got>>

\* run_single_thread_download after the hooks: progress (0, total), the GET
\* request, File::create for (Some(p), false).
SingleBegin ==
    /\ s_pc = "before_start"
    /\ ~s_inside
    /\ s_hook > Len(HookPass)
    /\ ~IsMulti
    /\ s_pc' = "stream"
    /\ s_hook' = 0
    /\ h_progress' = 0
    /\ h_requests' = h_requests + 1
    /\ IF s_cfg.save /\ ~s_cfg.bytes
       THEN h_file_exists' = TRUE /\ h_file' = <<>>
       ELSE UNCHANGED <<h_file_exists, h_file>>
    /\ UNCHANGED <<SendFrame, RangeVars, s_cfg, s_inside, s_log, s_cancel,
                   s_out_bytes, s_got, s_result>>

\* Whether the single-thread path has opened a file to write to.
SingleHasFile == s_cfg.save /\ ~s_cfg.bytes

\* One round of `while let Some(chunk_result) = stream.next().await`: the
\* cancel check, the chunk to the file and to out_bytes, the progress; at
\* the end of the stream the flush.
SingleStream ==
    /\ s_pc = "stream"
    /\ LET chunk == NextSubChunk(ServeFull(total), s_got) IN
       IF s_got < total
       THEN IF s_cancel
            THEN /\ s_pc' = "returned"
                 /\ s_result' = SendErr("Cancelled")
                 /\ UNCHANGED <<h_file, h_progress, s_out_bytes, s_got, s_hook>>
            ELSE /\ h_file' = IF SingleHasFile THEN h_file \o chunk ELSE h_file
                 /\ s_out_bytes' = IF s_cfg.bytes THEN s_out_bytes \o chunk
                                   ELSE s_out_bytes
                 /\ s_got' = s_got + Len(chunk)
                 /\ h_progress' = s_got + Len(chunk)
                 /\ UNCHANGED <<s_pc, s_result, s_hook>>
       ELSE /\ s_pc' = "after_complete"
            /\ s_hook' = 1
            /\ UNCHANGED <<h_file, h_progress, s_out_bytes, s_got, s_result>>
    /\ UNCHANGED <<SendFrame, RangeVars, h_file_exists, h_requests, s_cfg,
                   s_inside, s_log, s_cancel>>

\* run_chunked_download after the hooks: progress (0, total), the
\* semaphore, File::create, one task per range.
ChunkedBegin ==
    /\ s_pc = "before_start"
    /\ ~s_inside
    /\ s_hook > Len(HookPass)
    /\ IsMulti
    /\ s_pc' = "join"
    /\ s_hook' = 0
    /\ h_progress' = 0
    /\ h_bytes_done' = 0
    /\ h_permits' = max_concurrent_from_config(max_chunks)
    /\ h_file_exists' = TRUE
    /\ h_file' = <<>>
    /\ h_cursor' = 0
    /\ h_tasks' = spawn_range_tasks(0, total)
    /\ UNCHANGED <<SendFrame, h_pc, h_outcome, h_result, h_requests, h_runs,
                   s_cfg, s_inside, s_log, s_cancel, s_out_bytes, s_got, s_result>>

\* `for (_start, h) in handles { h.await }` has seen every task return Ok.
ChunkedJoin ==
    /\ s_pc = "join"
    /\ \A t \in RangeTasks : h_tasks[t].pc = "done"
    /\ s_pc' = "after_complete"
    /\ s_hook' = 1
    /\ UNCHANGED <<SendFrame, hookVars, s_cfg, s_inside, s_log, s_cancel,
                   s_out_bytes, s_got, s_result>>

\* `Ok(Err(e)) => return Err(e)`: the handles are awaited in spawn order,
\* and the first task found failed ends the transfer; the other tasks run on.
ChunkedJoinErr ==
    /\ s_pc = "join"
    /\ \E t \in RangeTasks :
           /\ h_tasks[t].pc \in {"failed", "error"}
           /\ \A u \in 1..(t - 1) : h_tasks[u].pc = "done"
           /\ s_result' = SendErr(IF h_tasks[t].pc = "failed" THEN "Cancelled"
                                  ELSE "Request")
    /\ s_pc' = "returned"
    /\ UNCHANGED <<SendFrame, hookVars, s_cfg, s_hook, s_inside, s_log, s_cancel,
                   s_out_bytes, s_got>>

\* After run_after_complete: Ok(Bytes(out_bytes)) or Ok(Saved).
SendReturn ==
    /\ s_pc = "after_complete"
    /\ ~s_inside
    /\ s_hook > Len(HookPass)
    /\ s_pc' = "returned"
    /\ s_hook' = 0
    /\ s_result' = IF s_cfg.bytes /\ ~IsMulti
                   THEN [tag |-> "Ok", kind |-> "Bytes", data |-> s_out_bytes]
                   ELSE [tag |-> "Ok", kind |-> "Saved"]
    /\ UNCHANGED <<SendFrame, hookVars, s_cfg, s_inside, s_log, s_cancel,
                   s_out_bytes, s_got>>

\* ---------------------------------------------------------------- byte_segments.rs
SegFrame == <<cfgVars, dlVars, queueVars, lockVars, hookVars, unlockVars, sendVars, urlVars>>

\* The values a byte of a segment can have.
ByteValues == {1, 2}

\* Segment lists as the struct documents them: ascending offsets, no
\* overlap, covering [0, n) without a gap. A content of up to MaxTotal
\* bytes is cut into up to MaxSegments pieces, empty pieces included.
Contents == UNION {[1..n -> ByteValues] : n \in 0..MaxTotal}

RECURSIVE SumLens(_)
SumLens(lens) == IF lens = <<>> THEN 0 ELSE Head(lens) + SumLens(Tail(lens))

Cuts(n) ==
    {lens \in UNION {[1..k -> 0..MaxTotal] : k \in 0..MaxSegments} :
        /\ SumLens(lens) = n
        /\ (n > 0 => lens # <<>>)}

RECURSIVE CutAt(_, _, _)
CutAt(content, lens, offset) ==
    IF lens = <<>> THEN <<>>
    ELSE <<[offset |-> offset,
            data |-> SubSeq(content, offset + 1, offset + Head(lens))]>>
         \o CutAt(content, Tail(lens), offset + Head(lens))

SegmentLists ==
    UNION {{CutAt(content, lens, 0) : lens \in Cuts(Len(content))} :
           content \in Contents}

\* u64::saturating_add: the limit 2^64 - 1 is far above every offset and
\* length that occurs here, so the sum never saturates.
saturating_add(a, b) == a + b

\* One round of the loop of read_at: what the segment adds to `out`.
SegmentSliceWhole(seg, offset, end) == seg.data
SegmentSlice(seg, offset, end) ==
    LET seg_end == seg.offset + Len(seg.data)
        read_start == Max(offset, seg.offset) - seg.offset
        read_end == Min(end, seg_end) - seg.offset
    IN  IF seg_end <= offset \/ seg.offset >= end
        THEN <<>>
        ELSE SubSeq(seg.data, read_start + 1, read_end)

RECURSIVE ReadSegments(_, _, _)
ReadSegments(segs, offset, end) ==
    IF segs = <<>> THEN <<>>
    ELSE SegmentSlice(Head(segs), offset, end)
         \o ReadSegments(Tail(segs), offset, end)

\* ByteSegments::read_at
read_at(bs, offset, len) ==
    IF offset >= bs.total_len \/ len = 0
    THEN <<>>
    ELSE LET end == Min(saturating_add(offset, len), bs.total_len)
         IN  ReadSegments(bs.segments, offset, end)

\* ByteSegments::total_len
total_len(bs) == bs.total_len

\* A caller reads from the value.
ReadAt ==
    /\ \E offset \in 0..(MaxTotal + 1), len \in 0..(MaxTotal + 1) :
           b_read' = [called |-> TRUE, offset |-> offset, len |-> len,
                      out |-> read_at(b_segments, offset, len)]
    /\ UNCHANGED <<b_segments, SegFrame>>

\* ---------------------------------------------------------------- entrance/remote.rs
UrlFrame == <<cfgVars, dlVars, queueVars, lockVars, hookVars, unlockVars, sendVars, segVars>>

\* A url::Url is [scheme, host, port, path]: port "" is the scheme's default
\* port; path is the list of its segments, each a list of characters, so
\* "/" is <<<<>>>> and "/d/" is <<<<"d">>, <<>>>>.
Dot == <<".">>
DotDot == <<".", ".">>
Segments == {<<"a">>, <<"d">>, <<"d", "x">>, Dot, DotDot, <<>>}
SegmentSeqs == UNION {[1..n -> Segments] : n \in 0..MaxPathLen}

\* Url::path(): every segment after a "/".
RECURSIVE PathStr(_)
PathStr(path) ==
    IF path = <<>> THEN <<>> ELSE <<"/">> \o Head(path) \o PathStr(Tail(path))

\* Url::as_str() / to_string(): the serialization, character by character
\* (scheme and host are single tokens: a delimiter always follows them).
UrlAsStr(u) ==
    <<u.scheme, "://", u.host>>
    \o (IF u.port = "" THEN <<>> ELSE <<":", u.port>>)
    \o PathStr(u.path)

\* str::starts_with
StartsWith(str, prefix) ==
    /\ Len(prefix) <= Len(str)
    /\ SubSeq(str, 1, Len(prefix)) = prefix

\* _format_base_url: a path that does not end with '/' gets one.
format_base_url(u) ==
    IF u.path[Len(u.path)] # <<>>
    THEN [u EXCEPT !.path = u.path \o <<<<>>>>]
    ELSE u

ParsedBases ==
    [scheme : {"http"}, host : {"host"}, port : {"", "81"},
     path : {<<<<>>>>, <<<<"d">>>>, <<<<"d">>, <<>>>>}]

\* The path arguments: a relative path, an absolute path ("/.."), a
\* scheme-relative reference ("//host/.."), a full URL, and a string the
\* URL parser refuses.
References ==
    [kind : {"relative"}, scheme : {""}, host : {""}, port : {""},
     segs : {q \in SegmentSeqs : Len(q) > 0 => q[1] # <<>>}]
    \cup [kind : {"absolute"}, scheme : {""}, host : {""}, port : {""},
          segs : SegmentSeqs \ {<<>>}]
    \cup [kind : {"authority"}, scheme : {""}, host : {"host", "other"},
          port : {"", "81"}, segs : SegmentSeqs \ {<<>>}]
    \cup [kind : {"url"}, scheme : {"http", "https"}, host : {"host", "other"},
          port : {"", "81"}, segs : SegmentSeqs \ {<<>>}]
    \cup [kind : {"invalid"}, scheme : {""}, host : {""}, port : {""},
          segs : {<<>>}]

\* The URL parser's path state: ".." removes the last segment, "." adds
\* none; either of them at the end of the input leaves a trailing "/".
RECURSIVE ParsePath(_, _)
ParsePath(path, segs) ==
    IF segs = <<>> THEN path
    ELSE LET seg == Head(segs)
             last == Len(segs) = 1
             shortened == IF path = <<>> THEN path
                          ELSE SubSeq(path, 1, Len(path) - 1)
             next == IF seg = DotDot
                     THEN (IF last THEN shortened \o <<<<>>>> ELSE shortened)
                     ELSE IF seg = Dot
                     THEN (IF last THEN path \o <<<<>>>> ELSE path)
                     ELSE path \o <<seg>>
         IN  ParsePath(next, Tail(segs))

\* Url::join: the reference resolved against the base.
UrlJoin(base, ref) ==
    CASE ref.kind = "invalid" -> [ok |-> FALSE, url |-> base]
      [] ref.kind = "relative" ->
           [ok |-> TRUE,
            url |-> IF ref.segs = <<>> THEN base
                    ELSE [base EXCEPT !.path =
                            ParsePath(SubSeq(base.path, 1, Len(base.path) - 1),
                                      ref.segs)]]
      [] ref.kind = "absolute" ->
           [ok |-> TRUE, url |-> [base EXCEPT !.path = ParsePath(<<>>, ref.segs)]]
      [] ref.kind = "authority" ->
           [ok |-> TRUE,
            url |-> [scheme |-> base.scheme, host |-> ref.host, port |-> ref.port,
                     path |-> ParsePath(<<>>, ref.segs)]]
      [] ref.kind = "url" ->
           [ok |-> TRUE,
            url |-> [scheme |-> ref.scheme, host |-> ref.host, port |-> ref.port,
                     path |-> ParsePath(<<>>, ref.segs)]]

\* The two messages of format_url_path.
PathFormatError == [tag |-> "Err", msg |-> "path format error"]
ParentNotAllowed == [tag |-> "Err", msg |-> "parent directory not allowed"]

format_url_path(base_url, path) ==
    LET joined == UrlJoin(base_url, path)
        joined_url == joined.url
    IN  IF ~joined.ok THEN PathFormatError
        ELSE IF ~StartsWith(UrlAsStr(joined_url), UrlAsStr(base_url))
        THEN PathFormatError
        ELSE IF \/ joined_url.scheme # base_url.scheme
                \/ joined_url.host # base_url.host
                \/ ~StartsWith(PathStr(joined_url.path), PathStr(base_url.path))
        THEN ParentNotAllowed
        ELSE [tag |-> "Ok", url |-> UrlAsStr(joined_url)]

\* get_remote_files formats one of its relative_urls.
FormatUrlPath ==
    /\ f_path = NoCall
    /\ \E path \in References :
           /\ f_path' = path
           /\ f_result' = format_url_path(f_base_url, path)
    /\ UNCHANGED <<f_base_url, UrlFrame>>

\* ---------------------------------------------------------------- specifications
Next ==
    \/ Pause
    \/ Resume
    \/ Cancel
    \/ ChunkedStart
    \/ CoordRecv
    \/ CoordWaitRecv
    \/ CoordJoin
    \/ CoordFinish
    \/ \E t \in Tasks : TaskStep(t)
    \/ \E t \in Tasks : TaskFail(t)
    \/ SingleStart
    \/ SingleStartFail
    \/ SingleRecv
    \/ SingleWaitSelect
    \/ SingleWaitNotified
    \/ SingleWaitRecv
    \/ SingleChunk
    \/ SingleChunkFail
    \/ SingleEnd
    \/ WatcherChanged

Spec == Init /\ [][Next]_vars

\* One chunked download with controller calls and transport failures.
NextChunked ==
    \/ Pause
    \/ Resume
    \/ Cancel
    \/ ChunkedStart
    \/ CoordRecv
    \/ CoordWaitRecv
    \/ CoordJoin
    \/ CoordFinish
    \/ \E t \in Tasks : TaskStep(t)
    \/ \E t \in Tasks : TaskFail(t)

SpecChunked == InitChunked /\ [][NextChunked]_vars

\* One chunked download with transport failures; no controller call.
NextData ==
    \/ ChunkedStart
    \/ CoordJoin
    \/ CoordFinish
    \/ \E t \in Tasks : TaskRun(t)
    \/ \E t \in Tasks : TaskFail(t)

SpecData == InitChunked /\ [][NextData]_vars

\* One chunked download from a server that ignores the Range header and
\* answers every request with the whole file; no controller call.
InitNoRange ==
    /\ total \in 0..MaxTotal
    /\ chunk_size \in 1..MaxChunkSize
    /\ max_chunks \in 2..MaxChunks
    /\ download_mode \in {"SaveFile", "OutputBytes"}
    /\ max_retries = MaxRetries
    /\ range_support = FALSE
    /\ Constructed
    /\ Idle
    /\ sends_left = 1

SpecNoRange == InitNoRange /\ [][NextData]_vars

\* One chunked download with transport failures for every max_retries the
\* builder can set; no controller call.
InitRetry ==
    /\ total \in 0..MaxTotal
    /\ chunk_size \in 1..MaxChunkSize
    /\ max_chunks \in 2..MaxChunks
    /\ download_mode \in {"SaveFile", "OutputBytes"}
    /\ max_retries \in 0..MaxRetries
    /\ range_support = TRUE
    /\ Constructed
    /\ Idle
    /\ sends_left = 1

SpecRetry == InitRetry /\ [][NextData]_vars

\* One chunked download observed by a subscriber; no controller call.
NextProgress ==
    \/ ChunkedStart
    \/ CoordJoin
    \/ CoordFinish
    \/ \E t \in Tasks : TaskRun(t)
    \/ \E t \in Tasks : TaskFail(t)
    \/ WatcherChanged

SpecProgress == InitChunked /\ [][NextProgress]_vars


\* Repeated send() on one downloader (either path) with controller calls,
\* against a server that answers every request.
NextSend ==
    \/ Pause
    \/ Resume
    \/ Cancel
    \/ ChunkedStart
    \/ CoordRecv
    \/ CoordWaitRecv
    \/ CoordJoin
    \/ CoordFinish
    \/ \E t \in Tasks : TaskStep(t)
    \/ SingleStart
    \/ SingleRecv
    \/ SingleWaitSelect
    \/ SingleWaitNotified
    \/ SingleWaitRecv
    \/ SingleChunk
    \/ SingleEnd

SpecSend == Init /\ [][NextSend]_vars


\* The runtime schedules every spawned task and the task running send()
\* whenever it can take a step; the caller does call send().
MaxTasks == MaxTotal
Fairness ==
    /\ \A t \in 1..MaxTasks : WF_vars(t \in Tasks /\ TaskStep(t))
    /\ WF_vars(ChunkedStart)
    /\ WF_vars(CoordRecv)
    /\ WF_vars(CoordWaitRecv)
    /\ WF_vars(CoordJoin)
    /\ WF_vars(CoordFinish)

\* One chunked download with controller calls, against a server that
\* answers every request, under a fair scheduler.
NextCtl ==
    \/ Pause
    \/ Resume
    \/ Cancel
    \/ ChunkedStart
    \/ CoordRecv
    \/ CoordWaitRecv
    \/ CoordJoin
    \/ CoordFinish
    \/ \E t \in Tasks : TaskStep(t)

SpecCtlFair == InitChunked /\ [][NextCtl]_vars /\ Fairness

\* One chunked download without controller calls, against a server that
\* answers every request, under a fair scheduler.
NextNoCmd ==
    \/ ChunkedStart
    \/ CoordJoin
    \/ CoordFinish
    \/ \E t \in Tasks : TaskRun(t)

SpecNoCmdFair == InitChunked /\ [][NextNoCmd]_vars /\ Fairness

\* One single-thread download whose caller calls send() once.
InitSingle ==
    /\ Configs
    /\ max_chunks <= 1
    /\ Constructed
    /\ Idle
    /\ sends_left = 1

\* One single-thread download with controller calls, against a server that
\* answers every request, under a fair scheduler.
NextSingle ==
    \/ Pause
    \/ Resume
    \/ Cancel
    \/ SingleStart
    \/ SingleRecv
    \/ SingleWaitSelect
    \/ SingleWaitNotified
    \/ SingleWaitRecv
    \/ SingleChunk
    \/ SingleEnd

FairnessSingle ==
    /\ WF_vars(SingleStart)
    /\ WF_vars(SingleRecv)
    /\ WF_vars(SingleWaitSelect)
    /\ WF_vars(SingleWaitNotified)
    /\ WF_vars(SingleWaitRecv)
    /\ WF_vars(SingleChunk)
    /\ WF_vars(SingleEnd)

SpecSingleFair == InitSingle /\ [][NextSingle]_vars /\ FairnessSingle

\* One download (either path) whose caller calls send() once, with
\* controller calls, against a server that answers every request.
InitOnce ==
    /\ Configs
    /\ Constructed
    /\ Idle
    /\ sends_left = 1

SpecOnce == InitOnce /\ [][NextSend]_vars


\* No download is configured in the specifications of the other components.
NoDownload ==
    /\ total = 0
    /\ chunk_size = 1
    /\ max_retries = MaxRetries
    /\ range_support = TRUE
    /\ max_chunks = 1
    /\ download_mode = "OutputBytes"
    /\ Constructed
    /\ sends_left = 0

\* The command queue alone: concurrent producers and the consumer.
InitQueue ==
    /\ NoDownload
    /\ Idle

NextQueue ==
    \/ \E p \in Producers : ProducerUpdate(p)
    \/ \E p \in Producers : ProducerEnqueue(p)
    \/ ConsumerRecv
    \/ ConsumerTryRecv
    \/ ConsumerTryRecvEmpty
    \/ ConsumerUpdate

SpecQueue == InitQueue /\ [][NextQueue]_vars

\* The lock+notify property under a fair scheduler: a call once made runs
\* to its end; whether and when calls are made is up to the callers.
InitLock ==
    /\ NoDownload
    /\ QueueNew
    /\ HookNew
    /\ \E v \in Values : LockNew(v)
    /\ UrlNew
    /\ SegmentsNew
    /\ SendNew
    /\ UnlockNew

NextLock ==
    \/ \E w \in Waiters : WaitCall(w)
    \/ \E w \in Waiters : WaitStep(w)
    \/ \E c \in Callers : CallUpdate(c)
    \/ \E c \in Callers : CallGetCurrent(c)
    \/ \E c \in Callers : CallDestroy(c)
    \/ \E c \in Callers : CallStep(c)

FairnessLock ==
    /\ \A w \in Waiters : WF_vars(WaitStep(w))
    /\ \A c \in Callers : WF_vars(CallStep(c))

SpecLockFair == InitLock /\ [][NextLock]_vars /\ FairnessLock

\* The cell with try_update among the operations its callers use.
NextTry ==
    \/ NextLock
    \/ \E c \in Callers : CallTryUpdate(c)
    \/ \E c \in Callers : TryStep(c)

SpecTry == InitLock /\ [][NextTry]_vars

\* A broadcast-last-value property, its handles and its watchers.
InitWatch == NoDownload /\ Idle

NextWatch ==
    \/ PropUpdate
    \/ PropClone
    \/ PropDrop
    \/ \E w \in Watchers : PropWatch(w)
    \/ \E w \in Watchers : WatcherDrop(w)
    \/ \E w \in Watchers : WatcherCall(w)
    \/ \E w \in Watchers : WatcherStep(w)

FairnessWatch == \A w \in Watchers : WF_vars(WatcherStep(w))

SpecWatchFair == InitWatch /\ [][NextWatch]_vars /\ FairnessWatch

\* Tasks incrementing one property through update_field while watchers
\* subscribe and listen.
NextField ==
    \/ \E t \in Updaters : FieldLoad(t)
    \/ \E t \in Updaters : FieldSend(t)
    \/ \E w \in Watchers : PropWatch(w)
    \/ \E w \in Watchers : WatcherCall(w)
    \/ \E w \in Watchers : WatcherStep(w)

SpecField == InitWatch /\ [][NextField]_vars

\* Transfers of one remote file to one save path with the hook-based
\* downloader in chunked save-to-file mode: a transfer may be interrupted,
\* and a new downloader may be built and sent for the same path.
InitHook ==
    /\ total \in 0..MaxTotal
    /\ chunk_size = 1
    /\ max_retries = MaxRetries
    /\ range_support = TRUE
    /\ max_chunks \in 2..MaxChunks
    /\ download_mode = "SaveFile"
    /\ Constructed
    /\ sends_left = 0
    /\ Idle

NextHook ==
    \/ HookStart
    \/ HookCrash
    \/ HookFinish
    \/ \E t \in RangeTasks : RangeStep(t)

SpecResume == InitHook /\ [][NextHook]_vars

\* One send() of a hook-based downloader, for every way to build it; the
\* chunked transfer itself is followed in save-to-file mode.
OldFile == <<0>>
InitSendHooks ==
    /\ total \in 0..MaxTotal
    /\ chunk_size = 1
    /\ max_retries = MaxRetries
    /\ range_support = TRUE
    /\ max_chunks \in 1..MaxChunks
    /\ download_mode = "SaveFile"
    /\ Constructed
    /\ sends_left = 0
    /\ QueueNew /\ LockNew(0) /\ UnlockNew /\ SegmentsNew /\ UrlNew
    /\ s_cfg \in {c \in SendConfigs : max_chunks > 1 => (c.save /\ ~c.bytes)}
    /\ s_pc = "built" /\ s_hook = 0 /\ s_inside = FALSE /\ s_log = <<>>
    /\ s_cancel = FALSE /\ s_out_bytes = <<>> /\ s_got = 0 /\ s_result = NoResult
    /\ h_file_exists = s_cfg.old_file
    /\ h_file = IF s_cfg.old_file THEN OldFile ELSE <<>>
    /\ h_cursor = 0 /\ h_progress = 0 /\ h_bytes_done = 0 /\ h_permits = 0
    /\ h_tasks = <<>> /\ h_pc = "idle" /\ h_outcome = [tag |-> "None"]
    /\ h_result = NoResult /\ h_requests = 0 /\ h_runs = <<>>

NextSendHooks ==
    \/ SendCall
    \/ RequestCancel
    \/ HookEnter
    \/ HookLeave
    \/ SingleBegin
    \/ SingleStream
    \/ ChunkedBegin
    \/ ChunkedJoin
    \/ ChunkedJoinErr
    \/ \E t \in RangeTasks : RangeFail(t)
    \/ SendReturn
    \/ \E t \in RangeTasks : RangeStep(t)

SpecSendHooks == InitSendHooks /\ [][NextSendHooks]_vars

\* ByteSegments values over every valid segment list, read at every offset.
InitSegments ==
    /\ NoDownload
    /\ QueueNew /\ LockNew(0) /\ HookNew /\ UnlockNew /\ SendNew /\ UrlNew
    /\ b_segments \in {ByteSegmentsNew(segs) : segs \in SegmentLists}
    /\ b_read = NoRead

NextSegments == ReadAt

SpecSegments == InitSegments /\ [][NextSegments]_vars

\* format_url_path for every base URL an auth handle can hold and every
\* path argument.
InitUrl ==
    /\ NoDownload
    /\ QueueNew /\ LockNew(0) /\ HookNew /\ UnlockNew /\ SendNew /\ SegmentsNew
    /\ f_base_url \in {format_base_url(u) : u \in ParsedBases}
    /\ f_path = NoCall
    /\ f_result = NoCall

NextUrl == FormatUrlPath

SpecUrl == InitUrl /\ [][NextUrl]_vars

\* The resume check for every destination and every local file, shorter
\* than, as long as and longer than the remote file.
LocalFiles == UNION {[1..n -> {0, 1}] : n \in 0..(MaxTotal + 1)}
InitResumeCheck ==
    /\ total \in 0..MaxTotal
    /\ chunk_size = 1
    /\ max_retries = MaxRetries
    /\ range_support = TRUE
    /\ max_chunks = 2
    /\ download_mode = "SaveFile"
    /\ Constructed
    /\ sends_left = 0
    /\ QueueNew /\ LockNew(0) /\ UnlockNew /\ SegmentsNew /\ UrlNew
    /\ s_cfg \in {c \in SendConfigs : ~c.is_dir /\ c.size_known /\ c.hooks = <<>>}
    /\ s_pc = "built" /\ s_hook = 0 /\ s_inside = FALSE /\ s_log = <<>>
    /\ s_cancel = FALSE /\ s_out_bytes = <<>> /\ s_got = 0 /\ s_result = NoResult
    /\ h_file_exists = s_cfg.old_file
    /\ h_file \in IF s_cfg.old_file THEN LocalFiles ELSE {<<>>}
    /\ h_cursor = 0 /\ h_progress = 0 /\ h_bytes_done = 0 /\ h_permits = 0
    /\ h_tasks = <<>> /\ h_pc = "idle" /\ h_outcome = [tag |-> "None"]
    /\ h_result = NoResult /\ h_requests = 0 /\ h_runs = <<>>

NextResumeCheck == ResumeCheck

SpecResumeCheck == InitResumeCheck /\ [][NextResumeCheck]_vars

\* The two fan-out loops on their own, for every file size, chunk size and
\* start offset.
InitFanOut ==
    /\ total \in 0..MaxFanTotal
    /\ chunk_size \in 1..MaxFanChunk
    /\ max_chunks = 2
    /\ download_mode = "SaveFile"
    /\ max_retries = MaxRetries
    /\ range_support = TRUE
    /\ Constructed
    /\ sends_left = 0
    /\ QueueNew /\ LockNew(0) /\ UnlockNew /\ SendNew /\ SegmentsNew /\ UrlNew
    /\ h_file_exists = FALSE /\ h_file = <<>>
    /\ h_cursor = 0 /\ h_progress = 0 /\ h_bytes_done = 0 /\ h_permits = 0
    /\ h_tasks = <<>> /\ h_pc = "idle"
    /\ h_outcome \in [tag : {"DownloadFrom"}, start : 0..total]
    /\ h_result = NoResult /\ h_requests = 0 /\ h_runs = <<>>

NextFanOut ==
    \/ FanOut
    \/ RangeFanOut

SpecFanOut == InitFanOut /\ [][NextFanOut]_vars

\* ================================================================ claims

\* C1: in a chunked download the values a subscriber of downloaded_bytes is
\* handed by successive changed() calls never decrease.
C1_ProgressMonotone == [][w_seen' >= w_seen]_vars

\* C9: after a successful chunked download the value downloaded_bytes holds
\* (the last one published) is the file size.
C9_FinalProgress == (result.tag = "Ok") => (downloaded_bytes = total)

\* C2: once pause() and then resume() have been called, and no cancel(),
\* send() eventually returns Ok (no task stays suspended).
PauseThenResume ==
    /\ calls # <<>>
    /\ calls[Len(calls)] = "Resume"
    /\ \E i \in 1..Len(calls) : calls[i] = "Pause"
    /\ \A i \in 1..Len(calls) : calls[i] # "Cancel"
C2_ResumeCompletes == (<>[]PauseThenResume) => <>(result.tag = "Ok")

\* C5: cancel() called while the chunked download is paused (the coordinator
\* waiting for a command) leads to send() returning Cancelled and to every
\* segment task having terminated.
C5_CancelWhilePaused ==
    cancel_while_paused ~>
        (result.tag = "Cancelled" /\ \A t \in Tasks : tasks[t].pc \in Terminal)

\* C3: when send() has returned Cancelled the status is Canceled and, in
\* save-to-file mode, the partially written file is gone from the save path.
C3_CancelCleansUp ==
    (result.tag = "Cancelled") =>
        /\ download_status = "Canceled"
        /\ (download_mode = "SaveFile" /\ file_bytes # <<>>) => ~file_exists

\* C4: after send() of a chunked save-to-file download has returned Cancelled
\* no segment task writes to the file any more.
C4_NoWriteAfterCancelled ==
    [][(result.tag = "Cancelled" /\ result'.tag = "Cancelled")
          => file_bytes' = file_bytes]_vars

\* C6: the status only moves Running -> Paused | Canceled | Finished and
\* Paused -> Running | Canceled; Canceled and Finished are final.
StatusFlow ==
    {<<"Running", "Paused">>, <<"Running", "Canceled">>, <<"Running", "Finished">>,
     <<"Paused", "Running">>, <<"Paused", "Canceled">>}
C6_StatusFlow ==
    [][download_status' # download_status
          => <<download_status, download_status'>> \in StatusFlow]_vars

RECURSIVE ConcatData(_)
ConcatData(segs) ==
    IF segs = <<>> THEN <<>> ELSE Head(segs).data \o ConcatData(Tail(segs))

\* C7: the segments returned by a successful chunked output-bytes download
\* are sorted by offset, contiguous from 0 without overlap, one per range,
\* concatenate to the server's file, and total_len is the file size.
C7_SegmentsExact ==
    (result.tag = "Ok" /\ result.kind = "ByteSegments") =>
        LET segs == result.value.segments IN
        /\ \A i \in 1..(Len(segs) - 1) : segs[i].offset < segs[i + 1].offset
        /\ \A i \in 1..Len(segs) :
              segs[i].offset = IF i = 1 THEN 0
                               ELSE segs[i - 1].offset + Len(segs[i - 1].data)
        /\ Len(segs) = Len(tasks)
        /\ \A t \in Tasks : segs[t].offset = tasks[t].lo
                            /\ Len(segs[t].data) = tasks[t].hi - tasks[t].lo
        /\ ConcatData(segs) = ServeFull(total)
        /\ result.value.total_len = total

C7_Witness ==
    /\ result.tag = "Ok" /\ result.kind = "ByteSegments"
    /\ Len(result.value.segments) >= 2
    /\ \E t \in Tasks : tasks[t].retries > 0 /\ tasks[t].hi - tasks[t].lo >= 2

\* C8: after a successful chunked save-to-file download the file at the save
\* path is byte for byte the server's file; every write happens under the
\* file mutex at segment base + bytes this task has already written.
C8_FileExact ==
    /\ (result.tag = "Ok" /\ result.kind = "SavedToLocal") =>
          (file_exists /\ file_bytes = ServeFull(total))
    /\ \A t \in Tasks : tasks[t].pc = "write" =>
          (file_lock = t /\ file_cursor = tasks[t].lo + tasks[t].got)

C8_Witness ==
    /\ result.tag = "Ok" /\ result.kind = "SavedToLocal"
    /\ Len(tasks) >= 2
    /\ \E t \in Tasks : tasks[t].hi - tasks[t].lo >= 2

\* C10: without controller calls and with a server that answers every range
\* request the chunked download finishes: every task has acquired and
\* released its permit, send() has returned Ok and the status is Finished.
Finished ==
    /\ cpc = "returned"
    /\ result.tag = "Ok"
    /\ download_status = "Finished"
    /\ \A t \in Tasks : tasks[t].pc = "done"
    /\ permits = MaxConcurrent(max_chunks)
C10_Terminates == <>[]Finished

C10_Witness == Finished /\ Len(tasks) > MaxConcurrent(max_chunks)

\* C11: in the single-thread download a Pause received by the stream loop
\* sets the status to Paused, a Resume then received by the pause loop (by
\* the notifier arm or by the queue arm) sets it back to Running, and once
\* pause() and then resume() have been called, and no cancel(), send()
\* eventually returns Ok with the status Finished.
C11_PauseResumeCompletes ==
    /\ (cpc = "stream" /\ command_queue # <<>> /\ Head(command_queue) = "Pause")
          ~> (download_status = "Paused")
    /\ (download_status = "Paused" /\ command_queue # <<>>
          /\ Head(command_queue) = "Resume")
          ~> (download_status = "Running")
    /\ (<>[]PauseThenResume)
          => <>[](cpc = "returned" /\ result.tag = "Ok"
                    /\ download_status = "Finished")

C11_Witness ==
    /\ cpc = "returned"
    /\ result.tag = "Ok"
    /\ download_status = "Finished"
    /\ calls = <<"Pause", "Resume">>
    /\ resumed_by = "notified"
    /\ total >= 2

\* C12: once the status is Finished it stays Finished and downloaded_bytes
\* keeps its value, whatever pause(), resume() and cancel() calls follow.
C12_FinishedIgnoresCommands ==
    [][download_status = "Finished"
          => (download_status' = "Finished"
              /\ downloaded_bytes' = downloaded_bytes)]_vars

C12_Witness ==
    /\ download_status = "Finished"
    /\ max_chunks <= 1
    /\ command_queue = <<"Pause", "Cancel">>

\* C13: in a chunked download the number of segment tasks that hold a permit
\* (acquired, not yet returned; retrying and suspended tasks included) never
\* exceeds the configured max_chunks.
HoldingPermit == {t \in Tasks : tasks[t].pc \notin ({"acquire"} \cup Terminal)}
C13_PermitBound == Cardinality(HoldingPermit) <= max_chunks

C13_Witness ==
    /\ Len(tasks) > max_chunks
    /\ Cardinality(HoldingPermit) = max_chunks
    /\ \E t \in HoldingPermit : tasks[t].pc = "wait"
    /\ \E t \in HoldingPermit : tasks[t].retries > 0

RECURSIVE FromProducer(_, _)
FromProducer(s, p) ==
    IF s = <<>> THEN <<>>
    ELSE IF Head(s)[1] = p THEN <<Head(s)>> \o FromProducer(Tail(s), p)
    ELSE FromProducer(Tail(s), p)

\* C16: what the consumer has received followed by what the channel still
\* holds is, for every producer, exactly the values that producer has
\* enqueued, each once and in the order it sent them; nothing is received
\* that is still in the channel.
C16_ExactlyOnceInOrder ==
    \A p \in Producers :
        FromProducer(q_recvd \o q_chan, p) = [k \in 1..q_prod[p].sent |-> <<p, k>>]

C16_Witness ==
    /\ Len(q_recvd) = NumProducers * MaxMsgs
    /\ q_recvd[1][1] # q_recvd[2][1]
    /\ q_cons.used = {"recv", "try_recv", "empty"}

\* C17: whenever no send, recv or try_recv is in progress the observable
\* property holds the value enqueued last.
QueueQuiet ==
    /\ q_cons.pc = "idle"
    /\ \A p \in Producers : q_prod[p].pc = "idle"
C17_StateIsLastEnqueued == QueueQuiet => q_state = q_last

\* C18: if from some moment on the value satisfies the predicate for good,
\* every wait_until that was called returns Ok, wherever it was at that
\* moment (registering, taking the lock, testing, suspended): in the end no
\* waiter is inside wait_until and none has returned anything but Ok.
ValueSatisfies == l_value # <<>> /\ Satisfies(l_value[1])
C18_NoLostWakeup ==
    (<>[]ValueSatisfies) =>
        <>[](\A w \in Waiters : /\ l_wait[w].pc \in {"idle", "done"}
                                /\ l_wait[w].ret \in {"none", "Ok"})

\* The last update has made the predicate true and has returned; one waiter
\* was suspended and is woken, another has not yet taken the lock.
C18_Witness ==
    /\ ValueSatisfies
    /\ \A c \in Callers : l_call[c].pc = "idle" /\ l_call[c].ops = MaxOps
                          /\ l_call[c].op = "update"
    /\ \E w \in Waiters : l_wait[w].pc = "await" /\ w \in l_woken
    /\ \E w \in Waiters : l_wait[w].pc = "lock" /\ w \in l_woken

\* C19: a wait_until that is in progress at a moment at which the value
\* satisfies the predicate returns Ok (unless the property is destroyed),
\* also when the value stops satisfying the predicate right away.
C19_NoMissedMoment ==
    \A w \in Waiters :
        []((ValueSatisfies /\ l_wait[w].pc \notin {"idle", "done"})
              => <>(l_wait[w].ret = "Ok" \/ l_value = <<>>))

\* C20: a destroyed property stays destroyed (an update does not revive
\* it); every wait_until, update and get_current that completes once the
\* property is destroyed returns Err(Destroyed); and every wait_until in
\* progress when the property is destroyed does return.
C20_DestroyIsFinal ==
    /\ [][l_value = <<>> => l_value' = <<>>]_vars
    /\ [][\A w \in Waiters :
            (l_value = <<>> /\ l_wait'[w].ret # l_wait[w].ret)
                => l_wait'[w].ret = "Destroyed"]_vars
    /\ [][\A c \in Callers :
            (l_value = <<>> /\ l_call'[c].ret \notin {l_call[c].ret, "none"})
                => l_call'[c].ret = "Destroyed"]_vars
    /\ (l_value = <<>>) ~> (\A w \in Waiters : l_wait[w].pc \in {"idle", "done"})

C20_Witness ==
    /\ l_value = <<>>
    /\ \A w \in Waiters : l_wait[w].ret = "Destroyed"
    /\ \E c \in Callers : l_call[c].op = "update" /\ l_call[c].ret = "Destroyed"
                          /\ l_call[c].pc = "idle"


\* C21: try_update never waits (a caller inside it always has a step to
\* take); its try_lock fails exactly when somebody holds the lock, and then
\* it returns Ok(false) at once with the value untouched; under the lock it
\* returns Err(Destroyed) on a destroyed cell, which stays destroyed, and
\* otherwise stores its value and returns Ok(true) when it has notified all
\* registered waiters; and when only try_update calls were made on the live
\* cell, one of the last calls returned Ok(true).
InTryUpdate(c) == l_call[c].op = "try_update" /\ l_call[c].pc # "idle"
OnlyTryUpdates ==
    /\ l_value # <<>>
    /\ \A w \in Waiters : l_wait[w] = [pc |-> "idle", ret |-> "none"]
    /\ \A c \in Callers : /\ l_call[c].pc = "idle"
                          /\ l_call[c].op = "try_update"
                          /\ l_call[c].ops = MaxOps
C22_WatcherSeesTermination ==
    \A w \in Watchers :
        []((u_handles = 0 /\ u_watch[w].pc = "changed"
               /\ u_watch[w].seen = u_version)
              => <>(u_watch[w].ret = "WatcherClosed"))

\* C23: the values a watcher obtained from its changed() calls are published
\* values in publication order, none repeated; and get_current returns the
\* value published last, watchers or not.
StrictlyIncreasing(s) == \A i, j \in DOMAIN s : i < j => s[i] < s[j]
C23_WatcherSubsequence ==
    /\ \A w \in Watchers :
          /\ StrictlyIncreasing(u_watch[w].got)
          /\ \A i \in DOMAIN u_watch[w].got : u_watch[w].got[i] \in 1..u_version
    /\ u_handles > 0 => u_value = <<u_version>>

\* C24: in either pass (before_start, after_complete) and in either path, a
\* hook is entered only after every hook registered before it has returned
\* from the same pass; a send() that returned Ok ran both passes over every
\* hook.
LogPos(e) == CHOOSE k \in DOMAIN s_log : s_log[k] = e
InLog(e) == \E k \in DOMAIN s_log : s_log[k] = e
C24_HookOrder ==
    /\ \A pass \in {"before_start", "after_complete"} :
         \A i, j \in DOMAIN s_cfg.hooks :
            (i < j /\ InLog(<<pass, "begin", j>>))
               => /\ InLog(<<pass, "end", i>>)
                  /\ LogPos(<<pass, "end", i>>) < LogPos(<<pass, "begin", j>>)
    /\ s_result.tag = "Ok" =>
         \A pass \in {"before_start", "after_complete"} :
            \A i \in DOMAIN s_cfg.hooks : InLog(<<pass, "end", i>>)

C24_Witness ==
    /\ s_result.tag = "Ok"
    /\ IsMulti
    /\ total > CHUNK_SIZE
    /\ Len(s_cfg.hooks) = 2

\* C25: when send() returned HookAbort, no hook registered after the
\* aborting one was entered, no request was issued, the save path is as it
\* was (no file created, an old file not truncated) and the progress has its
\* initial value.
FirstAbort == CHOOSE i \in DOMAIN s_cfg.hooks :
                 /\ s_cfg.hooks[i] = "abort"
                 /\ \A k \in 1..(i - 1) : s_cfg.hooks[k] = "ok"
C25_AbortPurity ==
    s_result = SendErr("HookAbort") =>
        /\ \A e \in DOMAIN s_log : /\ s_log[e][1] = "before_start"
                                   /\ s_log[e][3] <= FirstAbort
        /\ h_requests = 0
        /\ h_file_exists = s_cfg.old_file
        /\ h_file = (IF s_cfg.old_file THEN OldFile ELSE <<>>)
        /\ h_progress = 0

C25_Witness ==
    /\ s_result = SendErr("HookAbort")
    /\ s_cfg.hooks = <<"abort", "ok">>
    /\ s_cfg.old_file
    /\ IsMulti

\* C26: send() on a directory returns IsDir before any hook, request or
\* file creation, in the single-thread and in the chunked path.
C26_IsDir ==
    (s_cfg.is_dir /\ s_pc = "returned") =>
        /\ s_result = SendErr("IsDir")
        /\ s_log = <<>>
        /\ h_requests = 0
        /\ h_file_exists = s_cfg.old_file

\* C27: a single-thread send() with a save path and output-bytes that
\* returned Ok returned the whole content as Bytes and left the same
\* content in the file at the save path.
C27_BothSinks ==
    (~IsMulti /\ s_cfg.save /\ s_cfg.bytes /\ s_result.tag = "Ok") =>
        /\ s_result.kind = "Bytes"
        /\ s_result.data = ServeFull(total)
        /\ h_file_exists
        /\ h_file = ServeFull(total)

\* C28: a single-thread save-to-file send() that returned Cancelled has
\* left no file at the save path.
C28_CancelRemovesFile ==
    (~IsMulti /\ s_cfg.save /\ ~s_cfg.bytes /\ s_result = SendErr("Cancelled"))
        => ~h_file_exists

\* C29: for segments that are sorted, non-overlapping and cover
\* [0, total_len) without a gap, read_at(offset, len) returns exactly the
\* bytes at the positions [offset, min(offset + len, total_len)) in order;
\* so read_at(0, total_len) is the whole content, read_at(o, 0) and
\* read_at(total_len, k) are empty, and total_len is the last segment's
\* offset plus its length, or 0 without segments.
RECURSIVE Content(_)
Content(segs) == IF segs = <<>> THEN <<>> ELSE Head(segs).data \o Content(Tail(segs))

C29_ReadAt ==
    b_read.called =>
        LET segs == b_segments.segments
            whole == Content(segs)
            n == total_len(b_segments)
            o == b_read.offset
            upto == Min(o + b_read.len, n)
        IN  /\ n = Len(whole)
            /\ n = IF segs = <<>> THEN 0
                   ELSE segs[Len(segs)].offset + Len(segs[Len(segs)].data)
            /\ Len(b_read.out) = Max(upto - o, 0)
            /\ \A i \in 1..Len(b_read.out) : b_read.out[i] = whole[o + i]
            /\ (o = 0 /\ b_read.len = n) => b_read.out = whole
            /\ b_read.len = 0 => b_read.out = <<>>
            /\ o = n => b_read.out = <<>>

\* A read that starts inside one segment, crosses into the next and asks
\* for more than is left.
C29_Witness ==
    /\ b_read.called
    /\ Len(b_segments.segments) >= 2
    /\ b_read.offset > 0
    /\ b_read.offset < b_segments.segments[2].offset
    /\ b_segments.segments[2].offset < b_read.offset + b_read.len
    /\ b_read.offset + b_read.len > total_len(b_segments)
    /\ Len(b_read.out) = total_len(b_segments) - b_read.offset

\* C30: format_url_path returns a URL only if it lies under the auth base
\* URL (same scheme and host, path beginning with the base path); every
\* path that resolves outside the base (through ".." segments, an absolute
\* path, another scheme or host) is rejected, and the rejection is reported
\* as the "parent directory not allowed" error.
UnderBase(url, base) ==
    /\ url.scheme = base.scheme
    /\ url.host = base.host
    /\ StartsWith(PathStr(url.path), PathStr(base.path))

C30_OutsideBaseRejected ==
    f_result.tag # "None" =>
        LET joined == UrlJoin(f_base_url, f_path)
        IN  /\ f_result.tag = "Ok" =>
                  /\ joined.ok
                  /\ UnderBase(joined.url, f_base_url)
                  /\ f_result.url = UrlAsStr(joined.url)
            /\ (joined.ok /\ ~UnderBase(joined.url, f_base_url)) =>
                  f_result = ParentNotAllowed

\* C31: when the local file at the save path is longer than the remote
\* total, the resume check deletes the file and starts the download at
\* offset 0.
C31_LongerFileDeleted ==
    [][(/\ h_pc = "idle" /\ h_pc' = "checked"
        /\ s_cfg.save /\ ~s_cfg.bytes
        /\ h_file_exists /\ Len(h_file) > total)
       => (/\ ~h_file_exists'
           /\ h_outcome' = [tag |-> "DownloadFrom", start |-> 0])]_vars

\* C32: in the hook-based chunked path a segment task checks the hooks'
\* cancel flag at task start and again before it processes a streamed
\* sub-chunk; once the flag is set no task takes up a further sub-chunk
\* (none is written or reported) and the transfer returns Cancelled.
C32_CancelStopsSubChunks ==
    [][(IsMulti /\ s_cancel) =>
         \A t \in DOMAIN h_tasks :
             /\ t \in DOMAIN h_tasks'
             /\ ~(h_tasks[t].pc = "next" /\ h_tasks'[t].pc = "seek")
             /\ ~(h_tasks[t].pc = "check" /\ h_tasks'[t].pc = "request")]_vars

\* C33: if the server answers a range request without range semantics (the
\* whole body), that segment ends in a chunk-level failure: the response
\* bytes are neither written to the file nor added to the segments, and the
\* download does not report success.
C33_NonRangeFails ==
    (~range_support /\ total > 0) =>
        /\ result.tag # "Ok"
        /\ \A i \in 1..Len(file_bytes) : file_bytes[i] = 0
        /\ segments = <<>>

\* C34: each segment is attempted at least once and at most
\* max_retries + 1 times: a successful attempt ends the retries, and after
\* the (max_retries + 1)-th failed attempt the task returns ChunkFailed for
\* that chunk without a further attempt.
C34_AttemptsBounded ==
    /\ \A t \in DOMAIN tasks :
           /\ tasks[t].attempts <= max_retries + 1
           /\ tasks[t].retries <= tasks[t].attempts
           /\ tasks[t].pc \in Terminal => tasks[t].attempts >= 1
           /\ tasks[t].pc = "done" => tasks[t].attempts = tasks[t].retries + 1
           /\ tasks[t].pc = "failed" =>
                  /\ tasks[t].retries = max_retries + 1
                  /\ tasks[t].attempts = max_retries + 1
    /\ (result.tag = "MultipleChunksFailed") =>
           \A i \in result.chunks : tasks[i].pc = "failed"

\* send() has returned with one segment failed, its attempts used up, and
\* another segment downloaded.
C34_Witness ==
    /\ cpc = "returned"
    /\ \E t \in DOMAIN tasks :
           /\ tasks[t].pc = "failed"
           /\ tasks[t].attempts = max_retries + 1
    /\ \E t \in DOMAIN tasks : tasks[t].pc = "done"

\* C35: if any segment of a chunked download fails, send() returns an error
\* only after every segment task has finished (no task is still writing),
\* and in save-to-file mode the partially written file has been removed
\* from the save path.
RangeTerminal == {"done", "failed", "error"}

C35_FailureAfterAllTasks ==
    (IsMulti /\ s_pc = "returned" /\ s_result = SendErr("Request")) =>
        /\ \A t \in DOMAIN h_tasks : h_tasks[t].pc \in RangeTerminal
        /\ ~h_file_exists

\* C36: for every file size total >= 0, chunk size >= 1 and start offset
\* <= total the fan-out loop terminates and generates the segments
\* [start + k*chunk, min(start + (k+1)*chunk, total)): each non-empty,
\* pairwise disjoint, in ascending order, covering [start, total) exactly,
\* ceil((total - start) / chunk) of them, each with the Range header
\* bytes=lo-(hi-1).
CeilDiv(a, b) == (a + b - 1) \div b

FanOutExact(ts, start, tot, chunk) ==
    /\ Len(ts) = CeilDiv(tot - start, chunk)
    /\ \A k \in 1..Len(ts) :
           /\ ts[k].lo = start + (k - 1) * chunk
           /\ ts[k].hi = Min(start + k * chunk, tot)
           /\ ts[k].lo < ts[k].hi
           /\ ts[k].file_offset = ts[k].lo
    /\ \A k \in 1..(Len(ts) - 1) : ts[k].hi = ts[k + 1].lo
    /\ Len(ts) > 0 => (ts[1].lo = start /\ ts[Len(ts)].hi = tot)

C36_FanOutExact ==
    /\ cpc = "spawned" =>
           /\ FanOutExact(tasks, 0, total, chunk_size)
           /\ \A k \in 1..Len(tasks) :
                  RangeHeader(tasks[k].lo, tasks[k].hi)
                      = <<tasks[k].lo, tasks[k].hi - 1>>
    /\ h_pc = "spawned" =>
           /\ FanOutExact(h_tasks, h_outcome.start, total, CHUNK_SIZE)
           /\ \A k \in 1..Len(h_tasks) :
                  h_tasks[k].range = <<h_tasks[k].lo, h_tasks[k].hi - 1>>

\* Both loops have run on a file that does not divide evenly, the second
\* from an offset inside the file: several segments, the last one short.
C36_Witness ==
    /\ cpc = "spawned" /\ h_pc = "spawned"
    /\ Len(tasks) >= 3
    /\ tasks[Len(tasks)].hi - tasks[Len(tasks)].lo < chunk_size
    /\ h_outcome.start > 0
    /\ Len(h_tasks) >= 2
    /\ h_tasks[Len(h_tasks)].hi - h_tasks[Len(h_tasks)].lo < CHUNK_SIZE

\* C37: at every moment of a chunked download the shared byte counter and
\* every published downloaded_bytes value are at most the file size, also
\* when a segment attempt fails after delivering part of its data and the
\* segment is retried.
C37_CounterBounded ==
    /\ bytes_counter <= total
    /\ downloaded_bytes <= total

\* C38: whenever the controller's send() has returned, the download status
\* is terminal: Finished exactly when send() returned Ok, Canceled when it
\* returned Cancelled, and never left at Running or Paused, also when send()
\* returned a request, file or chunk-failure error.
C38_StatusTerminalOnReturn ==
    Returned =>
        /\ (download_status = "Finished") <=> (result.tag = "Ok")
        /\ result.tag = "Cancelled" => download_status = "Canceled"
        /\ download_status \notin {"Running", "Paused"}

\* The increments applied by the first n tasks.
RECURSIVE AppliedBy(_)
AppliedBy(n) == IF n = 0 THEN 0 ELSE u_field[n].applied + AppliedBy(n - 1)

FieldQuiet == \A t \in Updaters : u_field[t].pc = "idle"

\* C39: update_field is atomic with respect to concurrent update_field calls
\* on the same property: once no call is in flight, the value holds every
\* increment that was applied, so none is lost.
C39_NoLostIncrement ==
    (FieldQuiet /\ u_value # <<>>) => u_value[1] = AppliedBy(NumUpdaters)

\* A segment task that cannot write before the download is resumed: it has
\* ended, is inside the body of `while paused.load()`, or holds no permit yet.
Suspended(t) ==
    tasks[t].pc \in Terminal \cup {"chk_pcancel", "register", "wait", "acquire"}

\* C40: while the status is Paused the single-thread path consumes no data
\* chunk, every segment task of the chunked path writes at most one further
\* sub-chunk before it suspends, and once the tasks are suspended
\* downloaded_bytes does not change.
C40_PausedStopsWrites ==
    /\ [](download_status = "Paused" => \A t \in Tasks : tasks[t].late <= 1)
    /\ [][download_status = "Paused" =>
            /\ st_bytes_done' = st_bytes_done
            /\ (max_chunks <= 1 \/ \A t \in Tasks : Suspended(t))
                  => downloaded_bytes' = downloaded_bytes]_vars

\* A segment task wrote one sub-chunk after the pause and then suspended.
C40_Witness ==
    /\ download_status = "Paused"
    /\ \E t \in Tasks : tasks[t].late = 1 /\ tasks[t].pc = "wait"

====
